---- MODULE Spec2Model ----
(***************************************************************************)
(* A model of src/src/data/process_csv.py: the CSV normalization pipeline  *)
(* (configuration globals, normalize_team_name, clean_and_transform_data,  *)
(* the per-file pipeline and the batch loop).                              *)
(*                                                                         *)
(* Data representation.                                                    *)
(*   A Python string is a sequence of atoms.  An atom is a whitespace      *)
(*   character, a punctuation character, a digit, or a whole word that the *)
(*   program never looks inside ("Utd", "Brighton").  Concatenation of     *)
(*   strings is concatenation of sequences.                                *)
(*   A cell (a Python / pandas value) is a record [k, v]: k is the kind    *)
(*   ("null", "str", "num"), v the payload, always a sequence.             *)
(*   Numbers are held in tenths, so that one fractional digit is exact:    *)
(*   the integer 2 is Num(20), the float 1.5 is Num(15).                   *)
(***************************************************************************)
EXTENDS Integers, Sequences, FiniteSets, TLC

VARIABLES
  g,            \* the module-level configuration globals (process_csv.py 38-51)
  configFile,   \* what the file config_csv.yaml holds in this run (the environment)
  pc,           \* the position of the running program
  nameIn,       \* normalize_team_name: the argument of the first call
  nameOut,      \* normalize_team_name: the outcome of the first call
  nameOut2,     \* normalize_team_name: the outcome of the call on the first result
  dfIn,         \* clean_and_transform_data: the table passed in
  dfOut,        \* clean_and_transform_data: the outcome [raised, err, df]
  fs,           \* the file system: directory |-> the files it lists
  csv_files,    \* process_all_csv_files: the paths enumerated at line 452
  idx,          \* process_all_csv_files: the position of the loop of line 461
  success_count,\* process_all_csv_files: the counter of lines 460 and 465
  stage,        \* process_csv_data: the call the current file is at
  work,         \* process_csv_data: raw_data / cleaned_data of the current file
  ret,          \* what process_all_csv_files returned
  log,          \* the records the logger received, oldest first
  csv_arg,      \* process_csv_data: the csv_path passed in
  result,       \* process_csv_data: the outcome [raised, err, df]
  args,         \* main: the parsed command line [all, csv]
  exit_code,    \* main: the value returned to sys.exit
  scraper,      \* the WebScraper object: [config, url, data] (scrapers.py 91-109)
  page,         \* what pd.read_html finds at the scraper's URL (the environment)
  scrapeOut,    \* the outcome of the last WebScraper call: [op, raised, err, ret]
  urlConfigFile,\* what the file config_url.yaml holds in this run (the environment)
  web,          \* what pd.read_html finds at each URL (the environment)
  save_arg,     \* scrape_all_leagues: the save argument
  should_save,  \* scrape_all_leagues: the local of line 378
  league_idx,   \* scrape_all_leagues: the position of the loop of line 381
  results,      \* scrape_all_leagues: the dictionary, as its items in order
  scrape_log    \* the records the scrapers' logger received, oldest first

normVars  == <<nameIn, nameOut, nameOut2>>
cleanVars == <<dfIn, dfOut>>
batchVars == <<fs, csv_files, idx, success_count, stage, work, ret, log>>
mainVars == <<csv_arg, result, args, exit_code>>
leagueVars == <<urlConfigFile, web, save_arg, should_save, league_idx, results, scrape_log>>
scraperVars == <<scraper, page, scrapeOut, leagueVars>>
vars == <<g, configFile, pc, normVars, cleanVars, batchVars, mainVars, scraperVars>>

(***************************************************************************)
(* Cells                                                                   *)
(***************************************************************************)
PyNone == [k |-> "null", v |-> <<"None">>]
NaN    == [k |-> "null", v |-> <<"nan">>]
Str(s) == [k |-> "str", v |-> s]
Num(t) == [k |-> "num", v |-> <<t>>]
IntCell(n) == Num(10 * n)

IsNull(c) == c.k = "null"
IsStr(c)  == c.k = "str"
IsNum(c)  == c.k = "num"

\* Atoms
SP     == " "
TAB    == "TAB"
EnDash == "EN_DASH"      \* U+2013, the separator of process_csv.py line 276
Hyphen == "-"            \* U+002D
Dot    == "."
Whitespace == {SP, TAB}

DigitAtoms == <<"0", "1", "2", "3", "4", "5", "6", "7", "8", "9">>
IsDigit(a) == \E i \in 1..10 : DigitAtoms[i] = a
DigitVal(a) == (CHOOSE i \in 1..10 : DigitAtoms[i] = a) - 1

RECURSIVE Digits(_)
\* The decimal numeral of a natural number, most significant digit first.
Digits(n) ==
  IF n < 10 THEN <<DigitAtoms[n + 1]>>
  ELSE Append(Digits(n \div 10), DigitAtoms[(n % 10) + 1])

\* Python's str() of a value that is not a string: process_csv.py line 343.
\* A number of the model with no fractional part stands for a Python int.
str(c) ==
  CASE IsStr(c)  -> c
    [] IsNull(c) -> Str(c.v)
    [] IsNum(c)  ->
         LET t == c.v[1]
             a == IF t < 0 THEN -t ELSE t
             sign == IF t < 0 THEN <<Hyphen>> ELSE <<>>
         IN  IF a % 10 = 0
             THEN Str(sign \o Digits(a \div 10))
             ELSE Str(sign \o Digits(a \div 10) \o <<Dot>> \o Digits(a % 10))

(***************************************************************************)
(* String functions of Python used by the program                          *)
(***************************************************************************)
RECURSIVE SplitAcc(_, _, _)
SplitAcc(s, cur, acc) ==
  IF s = <<>>
  THEN IF cur = <<>> THEN acc ELSE Append(acc, cur)
  ELSE IF Head(s) \in Whitespace
       THEN SplitAcc(Tail(s), <<>>, IF cur = <<>> THEN acc ELSE Append(acc, cur))
       ELSE SplitAcc(Tail(s), Append(cur, Head(s)), acc)

\* str.split() with no argument: the maximal runs of non-whitespace.
split(s) == SplitAcc(s, <<>>, <<>>)

RECURSIVE join(_, _)
\* sep.join(words)
join(sep, words) ==
  IF words = <<>> THEN <<>>
  ELSE IF Len(words) = 1 THEN words[1]
  ELSE words[1] \o sep \o join(sep, Tail(words))

\* A filter that drops nothing: the join then keeps the deleted tokens' spaces.
filter_keeps_all(words) == words

\* filter(None, words): the words that are truthy, i.e. not the empty string.
filter_None(words) == SelectSeq(words, LAMBDA w : w # <<>>)

(***************************************************************************)
(* Configuration: DEFAULT_CONFIG, the globals and init_config              *)
(*                                                                         *)
(* A Python value that may be None is a record [some, val]; a dictionary   *)
(* is a function from its keys, so a key the file lacks is a key outside   *)
(* the DOMAIN.                                                             *)
(***************************************************************************)
Some(x) == [some |-> TRUE, val |-> x]
None    == [some |-> FALSE, val |-> <<>>]

DEFAULT_CORRECTIONS ==
  (<<"Utd">>       :> <<"United">>) @@
  (<<"Nott'ham">>  :> <<"Nottingham">>) @@
  (<<"Wolves">>    :> <<"Wolverhampton", SP, "Wanderers">>) @@
  (<<"Brighton">>  :> <<"Brighton", SP, "&", SP, "Hove", SP, "Albion">>) @@
  (<<"Tottenham">> :> <<"Tottenham", SP, "Hotspur">>) @@
  (<<"West", SP, "Ham">> :> <<"West", SP, "Ham", SP, "United">>) @@
  (<<"FC">>        :> <<>>) @@
  (<<"AFC">>       :> <<>>) @@
  (<<"Man">>       :> <<"Manchester">>) @@
  (<<"Spurs">>     :> <<"Tottenham", SP, "Hotspur">>)

DEFAULT_COLUMNS ==
  [rows_to_drop          |-> Some(<<"Date", "Home", "Away", "Venue">>),
   columns_to_drop       |-> Some(<<"Day", "Match Report", "Notes", "Venue",
                                    "Attendance", "Referee">>),
   required_columns      |-> Some(<<"Score", "Wk">>),
   cols_to_convert_int   |-> Some(<<"Wk", "Score_Home", "Score_Away">>),
   cols_to_convert_float |-> Some(<<"xG_Home", "xG_Away">>),
   cols_order            |-> Some(<<"Wk", "Date", "Time", "Home", "xG_Home",
                                    "Score_Home", "Score_Away", "xG_Away", "Away">>)]

DEFAULT_PATHS ==
  [raw_dir |-> Some("raw"), processed_dir |-> Some("processed"), logs_dir |-> Some("logs")]

DEFAULT_FILES ==
  [default_csv |-> Some("Premier-League-2024-2025"), process_all |-> Some(TRUE),
   file_pattern |-> Some("*.csv")]

DEFAULT_CONFIG ==
  [columns |-> DEFAULT_COLUMNS,
   team_name_corrections |-> Some(DEFAULT_CORRECTIONS),
   paths |-> DEFAULT_PATHS,
   files |-> DEFAULT_FILES]

\* The globals as the module leaves them when it is imported: all None.
GlobalNames ==
  {"CONFIG", "ROWS_TO_DROP", "COLUMNS_TO_DROP", "REQUIRED_COLUMNS",
   "COLS_TO_CONVERT_INT", "COLS_TO_CONVERT_FLOAT", "COLS_ORDER",
   "TEAM_NAME_CORRECTIONS", "BASE_DIR", "DATA_DIR", "RAW_DIR", "PROCESSED_DIR",
   "LOG_DIR"}

UninitializedGlobals == [n \in GlobalNames |-> None]

\* A load_config whose handler returns nothing when reading or parsing raises.
load_config_no_fallback(file) ==
  CASE file.kind = "absent"  -> Some(DEFAULT_CONFIG)
    [] file.kind = "invalid" -> None
    [] file.kind = "empty"   -> None
    [] file.kind = "parsed"  -> Some(file.conf)

\* A load_config that fills the sections a parsed file leaves out, and an
\* empty file, from the built-in defaults.
load_config_merge_defaults(file) ==
  CASE file.kind = "absent"  -> Some(DEFAULT_CONFIG)
    [] file.kind = "invalid" -> Some(DEFAULT_CONFIG)
    [] file.kind = "empty"   -> Some(DEFAULT_CONFIG)
    [] file.kind = "parsed"  ->
         Some([k \in DOMAIN DEFAULT_CONFIG \cup DOMAIN file.conf |->
                 IF k \in DOMAIN file.conf THEN file.conf[k] ELSE DEFAULT_CONFIG[k]])

\* load_config: the built-in defaults when the file does not exist or reading or
\* parsing it raises, else whatever the parser returned (None for an empty file).
load_config(file) ==
  CASE file.kind = "absent"  -> Some(DEFAULT_CONFIG)
    [] file.kind = "invalid" -> Some(DEFAULT_CONFIG)
    [] file.kind = "empty"   -> None
    [] file.kind = "parsed"  -> Some(file.conf)

\* The assignments of init_config lines 71-77 and 84-86, in program order:
\* <<global, section, key>>; an empty key is the section itself.
InitSteps ==
  <<<<"ROWS_TO_DROP", "columns", "rows_to_drop">>,
    <<"COLUMNS_TO_DROP", "columns", "columns_to_drop">>,
    <<"REQUIRED_COLUMNS", "columns", "required_columns">>,
    <<"COLS_TO_CONVERT_INT", "columns", "cols_to_convert_int">>,
    <<"COLS_TO_CONVERT_FLOAT", "columns", "cols_to_convert_float">>,
    <<"COLS_ORDER", "columns", "cols_order">>,
    <<"TEAM_NAME_CORRECTIONS", "team_name_corrections", "">>,
    <<"RAW_DIR", "paths", "raw_dir">>,
    <<"PROCESSED_DIR", "paths", "processed_dir">>,
    <<"LOG_DIR", "paths", "logs_dir">>>>

\* Whether CONFIG[section][key] raises (KeyError on a missing key, TypeError on
\* subscripting None), and for a path whether os.path.join raises on None.
LookupRaises(conf, step) ==
  \/ ~conf.some
  \/ step[2] \notin DOMAIN conf.val
  \/ /\ step[3] # ""
     /\ step[3] \notin DOMAIN conf.val[step[2]]
  \/ /\ step[2] = "paths"
     /\ ~conf.val["paths"][step[3]].some

Lookup(conf, step) ==
  IF step[3] = "" THEN conf.val[step[2]] ELSE conf.val[step[2]][step[3]]

RECURSIVE RunInitSteps(_, _, _)
\* Runs the assignments from step i on; stops at the first one that raises.
RunInitSteps(gl, conf, i) ==
  IF i > Len(InitSteps) THEN [g |-> gl, raised |-> FALSE]
  ELSE LET step == InitSteps[i]
           \* lines 80-81 run between the corrections and the directories
           gl2 == IF step[1] = "RAW_DIR"
                  THEN [gl EXCEPT !["BASE_DIR"] = Some("base"),
                                  !["DATA_DIR"] = Some("base/data")]
                  ELSE gl
       IN  IF LookupRaises(conf, step)
           THEN [g |-> gl2, raised |-> TRUE]
           ELSE RunInitSteps([gl2 EXCEPT ![step[1]] = Lookup(conf, step)], conf, i + 1)

\* init_config: CONFIG is assigned first, then the other globals one by one.
init_config(gl, file) ==
  LET conf == load_config(file)
  IN  RunInitSteps([gl EXCEPT !["CONFIG"] = conf], conf, 1)

(***************************************************************************)
(* Tables (pandas DataFrame) and the pandas operations the program uses    *)
(*                                                                         *)
(* A table is [cols, rows]: the ordered column names and the rows, each a  *)
(* function from the column names to cells.                                *)
(***************************************************************************)
Range(q) == {q[i] : i \in 1..Len(q)}

HasCol(df, c) == c \in Range(df.cols)

\* The values of column c, row by row.
Column(df, c) == [i \in 1..Len(df.rows) |-> df.rows[i][c]]

\* df.dropna(subset=cols, how='all'): only the rows that are null in every
\* one of cols go.
dropna_how_all(df, cols) ==
  [df EXCEPT !.rows = SelectSeq(df.rows, LAMBDA r : \E c \in Range(cols) : ~IsNull(r[c]))]

\* df.dropna(subset=cols): the rows with no null in any of cols.
dropna(df, cols) ==
  [df EXCEPT !.rows = SelectSeq(df.rows, LAMBDA r : \A c \in Range(cols) : ~IsNull(r[c]))]

\* df.drop(columns=cols): cols are present.
drop(df, cols) ==
  LET kept == SelectSeq(df.cols, LAMBDA c : c \notin Range(cols))
  IN  [cols |-> kept,
       rows |-> [i \in 1..Len(df.rows) |-> [c \in Range(kept) |-> df.rows[i][c]]]]

\* df[c] = vals: replaces the column where it stands, or appends it.
SetCol(df, c, vals) ==
  [cols |-> IF HasCol(df, c) THEN df.cols ELSE Append(df.cols, c),
   rows |-> [i \in 1..Len(df.rows) |->
               [d \in Range(df.cols) \cup {c} |-> IF d = c THEN vals[i] ELSE df.rows[i][d]]]]

\* df[c] = scalar
SetColScalar(df, c, val) == SetCol(df, c, [i \in 1..Len(df.rows) |-> val])

\* A projection that keeps one of the rows that are equal in the listed
\* columns, as df[cols].drop_duplicates() does.
Project_drop_duplicates(df, cols) ==
  LET proj == [i \in 1..Len(df.rows) |-> [c \in Range(cols) |-> df.rows[i][c]]]
      first == {i \in 1..Len(proj) : \A j \in 1..(i - 1) : proj[j] # proj[i]}
  IN  [cols |-> cols,
       rows |-> [k \in 1..Cardinality(first) |->
                   proj[CHOOSE i \in first : Cardinality({j \in first : j <= i}) = k]]]

\* df[cols]: the listed columns (all present), in the listed order.
Project(df, cols) ==
  [cols |-> cols,
   rows |-> [i \in 1..Len(df.rows) |-> [c \in Range(cols) |-> df.rows[i][c]]]]

RECURSIVE DigitsValue(_)
\* The value of a sequence of digits (0 for the empty sequence).
DigitsValue(ds) ==
  IF ds = <<>> THEN 0
  ELSE 10 * DigitsValue(SubSeq(ds, 1, Len(ds) - 1)) + DigitVal(ds[Len(ds)])

\* The number a string denotes for pd.to_numeric, NaN when it denotes none:
\* an optional minus sign, digits with at most one decimal point, at least one
\* digit.  (The strings of the model carry at most one fractional digit.)
ParseNumber(s) ==
  LET neg   == s # <<>> /\ s[1] = Hyphen
      body  == IF neg THEN Tail(s) ELSE s
      dots  == {i \in 1..Len(body) : body[i] = Dot}
      valid == /\ \A i \in 1..Len(body) : IsDigit(body[i]) \/ body[i] = Dot
               /\ Cardinality(dots) <= 1
               /\ \E i \in 1..Len(body) : IsDigit(body[i])
      dot   == IF dots = {} THEN Len(body) + 1 ELSE CHOOSE i \in dots : TRUE
      whole == DigitsValue(SubSeq(body, 1, dot - 1))
      frac  == SubSeq(body, dot + 1, Len(body))
      t     == 10 * whole + (IF frac = <<>> THEN 0 ELSE DigitVal(frac[1]))
  IN  IF valid THEN Num(IF neg THEN -t ELSE t) ELSE NaN

\* pd.to_numeric(value, errors='coerce') on one cell.
to_numeric(c) ==
  CASE IsNum(c)  -> c
    [] IsNull(c) -> NaN
    [] IsStr(c)  -> ParseNumber(c.v)

\* Whether .astype('Int64') accepts the (numeric or null) cell: a value with a
\* fractional part cannot be cast safely and raises TypeError.
CastsToInt64(c) == IsNull(c) \/ c.v[1] % 10 = 0

RECURSIVE SplitOnAcc(_, _, _, _)
SplitOnAcc(s, sep, cur, acc) ==
  IF s = <<>> THEN Append(acc, cur)
  ELSE IF Head(s) = sep
       THEN SplitOnAcc(Tail(s), sep, <<>>, Append(acc, cur))
       ELSE SplitOnAcc(Tail(s), sep, Append(cur, Head(s)), acc)

\* str.split(sep): the parts between the separators, empty parts kept.
split_on(s, sep) == SplitOnAcc(s, sep, <<>>, <<>>)

(***************************************************************************)
(* normalize_team_name (process_csv.py 328-359)                            *)
(***************************************************************************)
\* TEAM_NAME_CORRECTIONS.get(word, word)
corrections_get(corr, word) ==
  IF word \in DOMAIN corr THEN corr[word] ELSE word

\* Lines 342-359, with the corrections already read from the global.  The
\* outcome is [raised, val]: None has no attribute get (line 355).
normalize_words(corr, team_name) ==
  IF ~IsStr(team_name)
  THEN [raised |-> FALSE, val |-> str(team_name)]
  ELSE IF team_name.v = <<"Tottenham", SP, "Spurs">>
  THEN [raised |-> FALSE, val |-> Str(<<"Tottenham", SP, "Hotspur">>)]
  ELSE LET words == split(team_name.v)
       IN  IF words # <<>> /\ ~corr.some
           THEN [raised |-> TRUE, val |-> PyNone]
           ELSE LET normalized_words ==
                      [i \in 1..Len(words) |-> corrections_get(corr.val, words[i])]
                IN  [raised |-> FALSE,
                     val |-> Str(join(<<SP>>, filter_None(normalized_words)))]

\* The whole call: the lazy init_config of lines 339-340 (on the default path),
\* then the body.  The outcome is [g, raised, val].
normalize_team_name(gl, file, team_name) ==
  LET init == IF ~gl["TEAM_NAME_CORRECTIONS"].some
              THEN init_config(gl, file)
              ELSE [g |-> gl, raised |-> FALSE]
  IN  IF init.raised
      THEN [g |-> init.g, raised |-> TRUE, val |-> PyNone]
      ELSE LET r == normalize_words(init.g["TEAM_NAME_CORRECTIONS"], team_name)
           IN  [g |-> init.g, raised |-> r.raised, val |-> r.val]

(***************************************************************************)
(* clean_and_transform_data (process_csv.py 225-326)                       *)
(*                                                                         *)
(* The function is a chain of steps over a running state                   *)
(* [g, raised, err, df]: the globals, whether an exception is propagating, *)
(* the exception, and the table.  A step does nothing once raised holds.   *)
(***************************************************************************)
NoErr == [type |-> "", col |-> ""]
Err(type, col) == [type |-> type, col |-> col]
EmptyTable == [cols |-> <<>>, rows |-> <<>>]

Raise(st, e) == [st EXCEPT !.raised = TRUE, !.err = e, !.df = EmptyTable]

\* Lines 236-237: the lazy init_config, on the default path.
ensure_config(st, file) ==
  IF st.g["ROWS_TO_DROP"].some THEN st
  ELSE LET r == init_config(st.g, file)
       IN  IF r.raised THEN Raise([st EXCEPT !.g = r.g], Err("KeyError", ""))
           ELSE [st EXCEPT !.g = r.g]

\* Lines 243-249: rows with a missing value in a rows_to_drop column that the
\* table has are removed.  Iterating None raises TypeError.
drop_missing_rows(st) ==
  IF st.raised THEN st
  ELSE IF ~st.g["ROWS_TO_DROP"].some THEN Raise(st, Err("TypeError", ""))
  ELSE LET existing_drop_cols ==
             SelectSeq(st.g["ROWS_TO_DROP"].val, LAMBDA col : HasCol(st.df, col))
       IN  IF existing_drop_cols # <<>>
           THEN [st EXCEPT !.df = dropna(st.df, existing_drop_cols)]
           ELSE st

\* Lines 252-253: the columns_to_drop columns that the table has are removed.
drop_listed_columns(st) ==
  IF st.raised THEN st
  ELSE IF ~st.g["COLUMNS_TO_DROP"].some THEN Raise(st, Err("TypeError", ""))
  ELSE LET columns_to_drop_existing ==
             SelectSeq(st.g["COLUMNS_TO_DROP"].val, LAMBDA col : HasCol(st.df, col))
       IN  [st EXCEPT !.df = drop(st.df, columns_to_drop_existing)]

\* Lines 257-260: the first required column that the table lacks raises
\* ValueError("Colonne obligatoire manquante : <col>").
check_required(st) ==
  IF st.raised THEN st
  ELSE IF ~st.g["REQUIRED_COLUMNS"].some THEN Raise(st, Err("TypeError", ""))
  ELSE LET missing == SelectSeq(st.g["REQUIRED_COLUMNS"].val,
                                LAMBDA col : ~HasCol(st.df, col))
       IN  IF missing # <<>> THEN Raise(st, Err("ValueError", missing[1])) ELSE st

MapCol(df, c, F(_)) ==
  SetCol(df, c, [i \in 1..Len(df.rows) |-> F(df.rows[i][c])])

\* A consolidation that keeps an xG_Home or xG_Away column the table already
\* has.
consolidate_xg_keep_existing(st) ==
  IF st.raised THEN st
  ELSE LET d1 == IF HasCol(st.df, "xG") /\ ~HasCol(st.df, "xG_Home")
                 THEN SetCol(st.df, "xG_Home", Column(st.df, "xG")) ELSE st.df
           d2 == IF HasCol(d1, "xG.1") /\ ~HasCol(d1, "xG_Away")
                 THEN SetCol(d1, "xG_Away", Column(d1, "xG.1")) ELSE d1
           d3 == IF HasCol(d2, "xG_Home") THEN MapCol(d2, "xG_Home", to_numeric) ELSE d2
           d4 == IF HasCol(d3, "xG_Away") THEN MapCol(d3, "xG_Away", to_numeric) ELSE d3
       IN  [st EXCEPT !.df = d4]

\* Lines 263-272: xG and xG.1 are copied to xG_Home and xG_Away, which are then
\* made numeric.
consolidate_xg(st) ==
  IF st.raised THEN st
  ELSE LET d1 == IF HasCol(st.df, "xG")
                 THEN SetCol(st.df, "xG_Home", Column(st.df, "xG")) ELSE st.df
           d2 == IF HasCol(d1, "xG.1")
                 THEN SetCol(d1, "xG_Away", Column(d1, "xG.1")) ELSE d1
           d3 == IF HasCol(d2, "xG_Home") THEN MapCol(d2, "xG_Home", to_numeric) ELSE d2
           d4 == IF HasCol(d3, "xG_Away") THEN MapCol(d3, "xG_Away", to_numeric) ELSE d3
       IN  [st EXCEPT !.df = d4]

\* The row of df['Score'].str.split(sep, expand=True) for one cell: the parts
\* of a string; a single missing value for anything else.
SplitRow(c, sep) ==
  IF IsStr(c) THEN [j \in 1..Len(split_on(c.v, sep)) |-> Str(split_on(c.v, sep)[j])]
  ELSE <<NaN>>

Max(S) == CHOOSE x \in S : \A y \in S : y <= x

\* The number of columns of the expanded split: the longest row's length, none
\* for a table without rows.
SplitWidth(cells, sep) ==
  IF cells = <<>> THEN 0
  ELSE Max({Len(SplitRow(cells[i], sep)) : i \in 1..Len(cells)})

\* Column j of the expanded split: a missing value propagates to every column,
\* a short row is padded with None.
SplitColumn(cells, sep, j) ==
  [i \in 1..Len(cells) |->
     IF ~IsStr(cells[i]) THEN NaN
     ELSE IF j <= Len(SplitRow(cells[i], sep)) THEN SplitRow(cells[i], sep)[j]
     ELSE PyNone]

\* A split that assigns the two halves the wrong way round.
split_score_swapped(st, objectDtype) ==
  IF st.raised \/ ~HasCol(st.df, "Score") THEN st
  ELSE IF ~objectDtype THEN Raise(st, Err("AttributeError", ""))
  ELSE LET cells == Column(st.df, "Score")
       IN  IF SplitWidth(cells, EnDash) # 2 THEN Raise(st, Err("ValueError", ""))
           ELSE LET d1 == SetCol(st.df, "Score_Home", SplitColumn(cells, EnDash, 2))
                    d2 == SetCol(d1, "Score_Away", SplitColumn(cells, EnDash, 1))
                    d3 == MapCol(d2, "Score_Home", to_numeric)
                    d4 == MapCol(d3, "Score_Away", to_numeric)
                IN  [st EXCEPT !.df = drop(d4, <<"Score">>)]

\* Lines 275-284: Score is split on the en-dash into Score_Home and Score_Away,
\* which are made numeric; Score is dropped.  The .str accessor raises
\* AttributeError on a column that is not of object dtype, and assigning an
\* expanded split that has not exactly two columns to the two names raises
\* ValueError("Columns must be same length as key").
split_score(st, objectDtype) ==
  IF st.raised \/ ~HasCol(st.df, "Score") THEN st
  ELSE IF ~objectDtype THEN Raise(st, Err("AttributeError", ""))
  ELSE LET cells == Column(st.df, "Score")
       IN  IF SplitWidth(cells, EnDash) # 2 THEN Raise(st, Err("ValueError", ""))
           ELSE LET d1 == SetCol(st.df, "Score_Home", SplitColumn(cells, EnDash, 1))
                    d2 == SetCol(d1, "Score_Away", SplitColumn(cells, EnDash, 2))
                    d3 == MapCol(d2, "Score_Home", to_numeric)
                    d4 == MapCol(d3, "Score_Away", to_numeric)
                IN  [st EXCEPT !.df = drop(d4, <<"Score">>)]

\* Lines 287-289: xG and xG.1 are dropped.
drop_xg(st) ==
  IF st.raised THEN st
  ELSE [st EXCEPT !.df = drop(st.df, SelectSeq(<<"xG", "xG.1">>,
                                               LAMBDA col : HasCol(st.df, col)))]

RECURSIVE AddNullColumns(_, _)
AddNullColumns(df, cols) ==
  IF cols = <<>> THEN df
  ELSE AddNullColumns(SetColScalar(df, Head(cols), PyNone), Tail(cols))

\* Lines 292-297: every cols_order column that the table lacks is added, filled
\* with None.
complete_schema(st) ==
  IF st.raised THEN st
  ELSE IF ~st.g["COLS_ORDER"].some THEN Raise(st, Err("TypeError", ""))
  ELSE LET missing_cols == SelectSeq(st.g["COLS_ORDER"].val,
                                     LAMBDA col : ~HasCol(st.df, col))
       IN  [st EXCEPT !.df = AddNullColumns(st.df, missing_cols)]

RECURSIVE ApplyNormalize(_, _, _, _)
\* df[col].apply(normalize_team_name): one call per cell, in row order, each
\* with the globals the call before it left.  [g, raised, vals].
ApplyNormalize(gl, file, cells, done) ==
  IF cells = <<>> THEN [g |-> gl, raised |-> FALSE, vals |-> done]
  ELSE LET r == normalize_team_name(gl, file, Head(cells))
       IN  IF r.raised THEN [g |-> r.g, raised |-> TRUE, vals |-> done]
           ELSE ApplyNormalize(r.g, file, Tail(cells), Append(done, r.val))

normalize_column(st, file, col) ==
  IF st.raised \/ ~HasCol(st.df, col) THEN st
  ELSE LET r == ApplyNormalize(st.g, file, Column(st.df, col), <<>>)
       IN  IF r.raised THEN Raise([st EXCEPT !.g = r.g], Err("AttributeError", ""))
           ELSE [st EXCEPT !.g = r.g, !.df = SetCol(st.df, col, r.vals)]

\* A normalization of the Home column only.
normalize_teams_home_only(st, file) == normalize_column(st, file, "Home")

\* Lines 300-303: Home, then Away.
normalize_teams(st, file) ==
  normalize_column(normalize_column(st, file, "Home"), file, "Away")

RECURSIVE ConvertIntColumns(_, _)
\* Lines 307-311 for the listed columns in order: to_numeric, then Int64.
ConvertIntColumns(st, cols) ==
  IF st.raised \/ cols = <<>> THEN st
  ELSE IF ~HasCol(st.df, Head(cols)) THEN ConvertIntColumns(st, Tail(cols))
  ELSE LET d == MapCol(st.df, Head(cols), to_numeric)
       IN  IF \E i \in 1..Len(d.rows) : ~CastsToInt64(d.rows[i][Head(cols)])
           THEN Raise(st, Err("TypeError", Head(cols)))
           ELSE ConvertIntColumns([st EXCEPT !.df = d], Tail(cols))

convert_int(st) ==
  IF st.raised THEN st
  ELSE IF ~st.g["COLS_TO_CONVERT_INT"].some THEN Raise(st, Err("TypeError", ""))
  ELSE ConvertIntColumns(st, st.g["COLS_TO_CONVERT_INT"].val)

RECURSIVE ConvertFloatColumns(_, _)
\* Lines 314-318 for the listed columns in order: to_numeric, then float64.
ConvertFloatColumns(df, cols) ==
  IF cols = <<>> THEN df
  ELSE IF ~HasCol(df, Head(cols)) THEN ConvertFloatColumns(df, Tail(cols))
  ELSE ConvertFloatColumns(MapCol(df, Head(cols), to_numeric), Tail(cols))

convert_float(st) ==
  IF st.raised THEN st
  ELSE IF ~st.g["COLS_TO_CONVERT_FLOAT"].some THEN Raise(st, Err("TypeError", ""))
  ELSE [st EXCEPT !.df = ConvertFloatColumns(st.df, st.g["COLS_TO_CONVERT_FLOAT"].val)]

\* A reordering that keeps the table's own column order.
reorder_columns_table_order(st) ==
  IF st.raised THEN st
  ELSE IF ~st.g["COLS_ORDER"].some THEN Raise(st, Err("TypeError", ""))
  ELSE LET available_cols == SelectSeq(st.df.cols,
                                       LAMBDA col : col \in Range(st.g["COLS_ORDER"].val))
       IN  [st EXCEPT !.df = Project(st.df, available_cols)]

\* Lines 321-322: the cols_order columns that the table has, in that order.
reorder_columns(st) ==
  IF st.raised THEN st
  ELSE IF ~st.g["COLS_ORDER"].some THEN Raise(st, Err("TypeError", ""))
  ELSE LET available_cols == SelectSeq(st.g["COLS_ORDER"].val,
                                       LAMBDA col : HasCol(st.df, col))
       IN  [st EXCEPT !.df = Project(st.df, available_cols)]

\* The dtype pandas gave the column when the table was made: object when some
\* value is a string (or there is no row), a numeric dtype otherwise.
ObjectDtype(df, c) ==
  HasCol(df, c) /\ (df.rows = <<>> \/ \E i \in 1..Len(df.rows) : IsStr(df.rows[i][c]))

\* The required-column check made before the columns are dropped.
sanitize_check_first(gl, file, df) ==
  drop_listed_columns(check_required(drop_missing_rows(
    ensure_config([g |-> gl, raised |-> FALSE, err |-> NoErr, df |-> df], file))))

\* The sanitize steps with the columns dropped before the rows are removed.
sanitize_columns_first(gl, file, df) ==
  check_required(drop_missing_rows(drop_listed_columns(
    ensure_config([g |-> gl, raised |-> FALSE, err |-> NoErr, df |-> df], file))))

\* The sanitize steps, lines 236-260.
sanitize(gl, file, df) ==
  check_required(drop_listed_columns(drop_missing_rows(
    ensure_config([g |-> gl, raised |-> FALSE, err |-> NoErr, df |-> df], file))))

\* The transform steps, lines 262-326, on the state sanitize left.
transform(st, file, objectDtype) ==
  reorder_columns(convert_float(convert_int(normalize_teams(complete_schema(
    drop_xg(split_score(consolidate_xg(st), objectDtype))), file))))

\* clean_and_transform_data(df) with the globals gl: [g, raised, err, df].
clean_and_transform_data(gl, file, df) ==
  transform(sanitize(gl, file, df), file, ObjectDtype(df, "Score"))

(***************************************************************************)
(* Files: load_csv_data, generate_output_filename, save_to_csv             *)
(*                                                                         *)
(* fs maps a directory to the files it lists, in the order the operating   *)
(* system lists them.  A file is [name, content, readonly]; a name is a    *)
(* sequence of atoms whose last atom may be a suffix (".csv"); a content   *)
(* is [kind, table]: "csv" with the fields as text, or "garbage" for bytes *)
(* that pandas cannot parse.  A path is [dir, name].                       *)
(***************************************************************************)
Suffixes == {".csv", ".txt"}

CsvContent(table) == [kind |-> "csv", table |-> table]
Garbage == [kind |-> "garbage", table |-> EmptyTable]

Path(dir, name) == [dir |-> dir, name |-> name]

\* Path(...).stem, line 375: the name without its final suffix.
stem(name) ==
  IF Len(name) > 1 /\ name[Len(name)] \in Suffixes
  THEN SubSeq(name, 1, Len(name) - 1)
  ELSE name

\* Whether a name matches the glob pattern of line 451.
Matches(pattern, name) ==
  CASE pattern = "*"     -> TRUE
    [] pattern = "*.csv" -> name # <<>> /\ name[Len(name)] = ".csv"
    [] OTHER             -> FALSE

\* list(RAW_DIR.glob(pattern)), line 452: the matching paths in listing order.
glob(fsys, dir, pattern) ==
  LET hits == SelectSeq(fsys[dir], LAMBDA f : Matches(pattern, f.name))
  IN  [i \in 1..Len(hits) |-> Path(dir, hits[i].name)]

\* os.path.exists, line 214.
exists(fsys, p) ==
  p.dir \in DOMAIN fsys /\ \E i \in 1..Len(fsys[p.dir]) : fsys[p.dir][i].name = p.name

FileAt(fsys, p) ==
  fsys[p.dir][CHOOSE i \in 1..Len(fsys[p.dir]) : fsys[p.dir][i].name = p.name]

\* The fields pd.read_csv takes for missing values.
NaFields == {<<>>, <<"nan">>, <<"None">>, <<"n/a">>}

\* pd.read_csv on one column of text fields: missing values become NaN, and
\* the column is numeric when every other field is a numeral.
ReadColumn(fields) ==
  LET present == {i \in 1..Len(fields) : fields[i].v \notin NaFields}
      numeric == \A i \in present : IsNum(ParseNumber(fields[i].v))
  IN  [i \in 1..Len(fields) |->
         IF i \notin present THEN NaN
         ELSE IF numeric THEN ParseNumber(fields[i].v) ELSE fields[i]]

\* pd.read_csv, line 217: [raised, df].
read_csv(content) ==
  IF content.kind # "csv" THEN [raised |-> TRUE, df |-> EmptyTable]
  ELSE LET t == content.table
           col(c) == ReadColumn(Column(t, c))
       IN  [raised |-> FALSE,
            df |-> [cols |-> t.cols,
                    rows |-> [i \in 1..Len(t.rows) |->
                                [c \in Range(t.cols) |-> col(c)[i]]]]]

\* The text df.to_csv(index=False) writes, line 404: a missing value is an
\* empty field, a number its numeral.
to_csv(df) ==
  CsvContent([cols |-> df.cols,
              rows |-> [i \in 1..Len(df.rows) |->
                          [c \in Range(df.cols) |->
                             IF IsNull(df.rows[i][c]) THEN Str(<<>>)
                             ELSE str(df.rows[i][c])]]])

\* An open for writing fails on a file that may not be written and in a
\* directory that does not exist.
Writable(fsys, p) ==
  /\ p.dir \in DOMAIN fsys
  /\ exists(fsys, p) => ~FileAt(fsys, p).readonly

\* The file system after the content is written at the path: an existing file
\* is overwritten in place, a new one is listed last.
WriteFile(fsys, p, content) ==
  IF exists(fsys, p)
  THEN [fsys EXCEPT ![p.dir] =
          [i \in 1..Len(@) |-> IF @[i].name = p.name
                               THEN [@[i] EXCEPT !.content = content]
                               ELSE @[i]]]
  ELSE [fsys EXCEPT ![p.dir] =
          Append(@, [name |-> p.name, content |-> content, readonly |-> FALSE])]

\* The directories a relative path may start from: the working directory.
RelativeDirs == {"."}

\* os.path.isabs, line 203.
isabs(p) == p.dir \notin RelativeDirs

\* Lines 203-210: an absolute path is taken as it is, a relative path that
\* exists is made absolute, any other is looked up by its base name in RAW_DIR.
abs_path(gl, fsys, csv_path) ==
  IF isabs(csv_path) \/ exists(fsys, csv_path) THEN csv_path
  ELSE Path(gl["RAW_DIR"].val, csv_path.name)

\* load_csv_data(csv_path): [g, raised, err, df].  The lazy init_config of
\* lines 198-199 is outside the try; every exception inside it is re-raised
\* as ValueError.
load_csv_data(gl, file, fsys, csv_path) ==
  LET r  == IF gl["RAW_DIR"].some THEN [g |-> gl, raised |-> FALSE]
            ELSE init_config(gl, file)
      p  == abs_path(r.g, fsys, csv_path)
      rd == read_csv(FileAt(fsys, p).content)
  IN  IF r.raised
      THEN [g |-> r.g, raised |-> TRUE, err |-> Err("KeyError", ""), df |-> EmptyTable]
      ELSE IF ~exists(fsys, p) \/ rd.raised
      THEN [g |-> r.g, raised |-> TRUE, err |-> Err("ValueError", ""), df |-> EmptyTable]
      ELSE [g |-> r.g, raised |-> FALSE, err |-> NoErr, df |-> rd.df]

\* An output name made from the whole base name, suffix included.
generate_output_filename_from_name(csv_path) == csv_path.name \o <<"-processed", ".csv">>

\* generate_output_filename(csv_path, df), lines 375-379.
generate_output_filename(csv_path) == stem(csv_path.name) \o <<"-processed", ".csv">>

\* A save that logs a failing write and returns.
save_to_csv_swallowing(gl, file, fsys, df, filename) ==
  LET r == IF gl["PROCESSED_DIR"].some THEN [g |-> gl, raised |-> FALSE]
           ELSE init_config(gl, file)
      p == Path(r.g["PROCESSED_DIR"].val, filename)
  IN  IF r.raised
      THEN [g |-> r.g, raised |-> TRUE, err |-> Err("KeyError", ""), fs |-> fsys]
      ELSE IF ~Writable(fsys, p)
      THEN [g |-> r.g, raised |-> FALSE, err |-> NoErr, fs |-> fsys]
      ELSE [g |-> r.g, raised |-> FALSE, err |-> NoErr,
            fs |-> WriteFile(fsys, p, to_csv(df))]

\* save_to_csv(df, filename): [g, raised, err, fs].  The lazy init_config of
\* lines 398-399 is outside the try; a failing write is re-raised as IOError.
save_to_csv(gl, file, fsys, df, filename) ==
  LET r == IF gl["PROCESSED_DIR"].some THEN [g |-> gl, raised |-> FALSE]
           ELSE init_config(gl, file)
      p == Path(r.g["PROCESSED_DIR"].val, filename)
  IN  IF r.raised
      THEN [g |-> r.g, raised |-> TRUE, err |-> Err("KeyError", ""), fs |-> fsys]
      ELSE IF ~Writable(fsys, p)
      THEN [g |-> r.g, raised |-> TRUE, err |-> Err("IOError", ""), fs |-> fsys]
      ELSE [g |-> r.g, raised |-> FALSE, err |-> NoErr,
            fs |-> WriteFile(fsys, p, to_csv(df))]

\* The one value of a set with one element: a call made once, as a value.
The(S) == CHOOSE x \in S : TRUE

\* process_csv_data(csv_path), lines 424-433: [g, raised, err, fs, df].  Each
\* call is made once; the first that raises ends it; the saved table is the
\* one returned.
process_csv_data(gl, file, fsys, csv_path) ==
  LET failed(gl2, e) ==
        [g |-> gl2, raised |-> TRUE, err |-> e, fs |-> fsys, df |-> EmptyTable]
      after_save(cleaned_data, saved) ==
        IF saved.raised THEN failed(saved.g, saved.err)
        ELSE [g |-> saved.g, raised |-> FALSE, err |-> NoErr, fs |-> saved.fs,
              df |-> cleaned_data.df]
      after_clean(cleaned_data) ==
        IF cleaned_data.raised THEN failed(cleaned_data.g, cleaned_data.err)
        ELSE The({after_save(cleaned_data, saved) :
                    saved \in {save_to_csv(cleaned_data.g, file, fsys, cleaned_data.df,
                                           generate_output_filename(csv_path))}})
      after_load(raw_data) ==
        IF raw_data.raised THEN failed(raw_data.g, raw_data.err)
        ELSE The({after_clean(cleaned_data) :
                    cleaned_data \in {clean_and_transform_data(raw_data.g, file,
                                                               raw_data.df)}})
  IN  The({after_load(raw_data) : raw_data \in {load_csv_data(gl, file, fsys, csv_path)}})

(***************************************************************************)
(* Inputs of the normalize_team_name runs                                  *)
(***************************************************************************)
MaxNameLen == 4

NameAtoms == {SP, TAB, "Tottenham", "Spurs", "Utd", "FC"}

RECURSIVE SeqsUpTo(_, _)
\* All sequences over S of length at most n.
SeqsUpTo(S, n) ==
  IF n = 0 THEN {<<>>}
  ELSE LET shorter == SeqsUpTo(S, n - 1)
       IN  shorter \cup {Append(q, a) : q \in {x \in shorter : Len(x) = n - 1}, a \in S}

\* The names of tests/test_preprocessing.py lines 51-57.
TestNames ==
  {<<"Man", SP, "Utd">>, <<"Wolves">>, <<"Liverpool", SP, "FC">>,
   <<"Tottenham", SP, "Spurs">>, <<"Brighton">>,
   <<"West", SP, "Ham", SP, "Utd">>, <<"Arsenal", SP, "AFC">>}

NonStringNames == {PyNone, NaN, IntCell(3), Num(15)}

NameInputs ==
  {Str(q) : q \in SeqsUpTo(NameAtoms, MaxNameLen) \cup TestNames} \cup NonStringNames

\* Corrections with no chained substitution: no value has a token that is a key.
PLAIN_CORRECTIONS ==
  (<<"Utd">> :> <<"United">>) @@ (<<"FC">> :> <<>>) @@ (<<"Man">> :> <<"Manchester">>)

ParsedFile(conf) == [kind |-> "parsed", conf |-> conf]
AbsentFile  == [kind |-> "absent", conf |-> <<>>]
InvalidFile == [kind |-> "invalid", conf |-> <<>>]
EmptyFile   == [kind |-> "empty", conf |-> <<>>]

\* What config_csv.yaml may hold in a normalize_team_name run.
NormalizeConfigFiles ==
  {AbsentFile, InvalidFile, EmptyFile,
   ParsedFile([DEFAULT_CONFIG EXCEPT !.team_name_corrections = Some(PLAIN_CORRECTIONS)]),
   ParsedFile([DEFAULT_CONFIG EXCEPT !.team_name_corrections = Some(<<>>)]),
   ParsedFile([DEFAULT_CONFIG EXCEPT !.team_name_corrections = None]),
   ParsedFile([k \in {"columns", "paths", "files"} |-> DEFAULT_CONFIG[k]])}

(***************************************************************************)
(* SpecNormalize: a caller of normalize_team_name                          *)
(***************************************************************************)
NoCall == [raised |-> FALSE, val |-> PyNone]
NoResult == [raised |-> FALSE, err |-> NoErr, df |-> EmptyTable]
NoWork == [df |-> EmptyTable, objectDtype |-> FALSE]
NoFiles == [raw |-> <<>>, processed |-> <<>>]

NoPath == [dir |-> "", name |-> <<>>]
NoArgs == [all |-> FALSE, csv |-> NoPath]

\* main and process_csv_data before they are called.
MainNotStarted ==
  /\ csv_arg = NoPath
  /\ result = NoResult
  /\ args = NoArgs
  /\ exit_code = -1

NoOutcome == [op |-> "", raised |-> FALSE, err |-> NoErr, ret |-> FALSE]

\* scrape_all_leagues has not been called.
LeaguesNotStarted ==
  /\ urlConfigFile = AbsentFile
  /\ web = <<>>
  /\ save_arg = None
  /\ should_save = FALSE
  /\ league_idx = 0
  /\ results = <<>>
  /\ scrape_log = <<>>

\* No WebScraper has been made.
ScraperNotMade ==
  /\ scraper = [config |-> <<>>, url |-> <<>>, data |-> None]
  /\ page = [kind |-> "none", tables |-> <<>>]
  /\ scrapeOut = NoOutcome
  /\ LeaguesNotStarted

\* The locals of process_all_csv_files before it is called.
BatchNotStarted ==
  /\ csv_files = <<>>
  /\ idx = 0
  /\ success_count = 0
  /\ stage = "idle"
  /\ work = NoWork
  /\ ret = -1
  /\ log = <<>>

InitNormalize ==
  /\ g = UninitializedGlobals
  /\ configFile \in NormalizeConfigFiles
  /\ pc = "start"
  /\ nameIn \in NameInputs
  /\ nameOut = NoCall
  /\ nameOut2 = NoCall
  /\ dfIn = EmptyTable
  /\ dfOut = NoResult
  /\ fs = NoFiles
  /\ BatchNotStarted
  /\ MainNotStarted
  /\ ScraperNotMade

\* The caller initializes the configuration first, as main does (line 481).
CallInitConfig ==
  /\ pc = "start"
  /\ LET r == init_config(g, configFile)
     IN  /\ g' = r.g
         /\ pc' = IF r.raised THEN "exit" ELSE "ready"
  /\ UNCHANGED <<configFile, normVars, cleanVars, scraperVars, batchVars, mainVars, scraperVars>>

\* normalize_team_name(nameIn), with or without an earlier init_config.
CallNormalize ==
  /\ pc \in {"start", "ready"}
  /\ LET r == normalize_team_name(g, configFile, nameIn)
     IN  /\ g' = r.g
         /\ nameOut' = [raised |-> r.raised, val |-> r.val]
  /\ pc' = "called"
  /\ UNCHANGED <<configFile, nameIn, nameOut2, cleanVars, batchVars, mainVars, scraperVars>>

\* normalize_team_name applied to the result of the first call.
CallNormalizeAgain ==
  /\ pc = "called"
  /\ ~nameOut.raised
  /\ LET r == normalize_team_name(g, configFile, nameOut.val)
     IN  /\ g' = r.g
         /\ nameOut2' = [raised |-> r.raised, val |-> r.val]
  /\ pc' = "done"
  /\ UNCHANGED <<configFile, nameIn, nameOut, cleanVars, batchVars, mainVars, scraperVars>>

NextNormalize == CallInitConfig \/ CallNormalize \/ CallNormalizeAgain

SpecNormalize == InitNormalize /\ [][NextNormalize]_vars

(***************************************************************************)
(* Inputs of the clean_and_transform_data runs                             *)
(***************************************************************************)
MaxRows == 2

AllColumns ==
  {"Wk", "Date", "Time", "Home", "Score", "Away", "xG", "xG.1", "xG_Home", "Venue",
   "Referee"}

\* The first row of tests/test_preprocessing.py lines 25-38, with a venue and
\* an xG_Home column for the tables that have them.
BaseRow ==
  [c \in AllColumns |->
     CASE c = "Wk"      -> IntCell(1)
       [] c = "Date"    -> Str(<<"2024-08-17">>)
       [] c = "Time"    -> Str(<<"15:00">>)
       [] c = "Home"    -> Str(<<"Man", SP, "Utd">>)
       [] c = "Score"   -> Str(<<"2", EnDash, "0">>)
       [] c = "Away"    -> Str(<<"Wolves">>)
       [] c = "xG"      -> Num(18)
       [] c = "xG.1"    -> Num(7)
       [] c = "xG_Home" -> Num(99)
       [] c = "Venue"   -> Str(<<"Old", SP, "Trafford">>)
       [] c = "Referee" -> Str(<<"M.", SP, "Oliver">>)]

With(row, c, val) == [row EXCEPT ![c] = val]

RowPool ==
  {BaseRow,
   With(With(With(BaseRow, "Score", Str(<<"1", EnDash, "1">>)),
             "Home", Str(<<"Tottenham", SP, "Spurs">>)),
        "Away", Str(<<"Arsenal", SP, "AFC">>)),
   With(BaseRow, "Score", Str(<<"2", Hyphen, "0">>)),
   With(BaseRow, "Score", Str(<<"1", EnDash, "2", EnDash, "0">>)),
   With(BaseRow, "Score", Str(<<"3">>)),
   With(BaseRow, "Score", NaN),
   With(BaseRow, "Score", Str(<<"1", Dot, "5", EnDash, "2">>)),
   With(BaseRow, "Score", Str(<<"x", EnDash, "1", "0">>)),
   With(BaseRow, "Date", NaN),
   With(BaseRow, "Venue", NaN),
   With(With(BaseRow, "Home", NaN), "Score", Str(<<"0", EnDash, "3">>)),
   With(With(BaseRow, "Home", IntCell(3)), "Wk", Str(<<"x">>)),
   With(With(With(BaseRow, "xG", Str(<<"n/a">>)), "xG.1", Str(<<"0", Dot, "7">>)),
        "Wk", Str(<<"1", "2">>))}

ColumnLists ==
  {<<"Wk", "Date", "Time", "Home", "Score", "Away", "xG", "xG.1", "Referee">>,
   <<"Referee", "xG.1", "xG", "Away", "Score", "Home", "Time", "Date", "Wk">>,
   <<"Wk", "Date", "Time", "Home", "Score", "Away", "Venue">>,
   <<"Wk", "Date", "Home", "Away">>,
   <<"Date", "Home", "Score", "Away">>,
   <<"Score", "Wk", "Date">>,
   <<"Score", "xG_Home", "Wk", "xG", "Home">>,
   <<"Wk", "Score">>}

MakeTable(cols, rows) ==
  [cols |-> cols,
   rows |-> [i \in 1..Len(rows) |-> [c \in Range(cols) |-> rows[i][c]]]]

Tables == {MakeTable(cols, rows) : cols \in ColumnLists, rows \in SeqsUpTo(RowPool, MaxRows)}

\* Configuration files with other column lists than the defaults.
SCRAMBLED_COLUMNS ==
  [rows_to_drop          |-> Some(<<"Date">>),
   columns_to_drop       |-> Some(<<"Venue", "Time">>),
   required_columns      |-> Some(<<"Wk">>),
   cols_to_convert_int   |-> Some(<<"Wk">>),
   cols_to_convert_float |-> Some(<<"xG_Home", "Score_Home">>),
   cols_order            |-> Some(<<"Away", "Referee", "Score_Home", "Home", "Wk",
                                    "xG_Home", "Score">>)]

STRICT_COLUMNS ==
  [DEFAULT_COLUMNS EXCEPT !.required_columns = Some(<<"Venue", "Score", "Wk">>)]

CleanConfigFiles ==
  {AbsentFile,
   ParsedFile([DEFAULT_CONFIG EXCEPT !.columns = SCRAMBLED_COLUMNS,
                                     !.team_name_corrections = Some(PLAIN_CORRECTIONS)]),
   ParsedFile([DEFAULT_CONFIG EXCEPT !.columns = STRICT_COLUMNS])}

(***************************************************************************)
(* SpecClean: a caller of clean_and_transform_data                         *)
(***************************************************************************)
InitClean ==
  /\ g = UninitializedGlobals
  /\ configFile \in CleanConfigFiles
  /\ pc = "start"
  /\ dfIn \in Tables
  /\ dfOut = NoResult
  /\ nameIn = PyNone
  /\ nameOut = NoCall
  /\ nameOut2 = NoCall
  /\ fs = NoFiles
  /\ BatchNotStarted
  /\ MainNotStarted
  /\ ScraperNotMade

\* clean_and_transform_data(dfIn), with or without an earlier init_config.
CallClean ==
  /\ pc \in {"start", "ready"}
  /\ LET r == clean_and_transform_data(g, configFile, dfIn)
     IN  /\ g' = r.g
         /\ dfOut' = [raised |-> r.raised, err |-> r.err, df |-> r.df]
  /\ pc' = "cleaned"
  /\ UNCHANGED <<configFile, dfIn, normVars, batchVars, mainVars, scraperVars>>

NextClean == CallInitConfig \/ CallClean

SpecClean == InitClean /\ [][NextClean]_vars

(***************************************************************************)
(* Inputs of the batch runs                                                *)
(***************************************************************************)
MaxFiles == 4

TestColumns == <<"Wk", "Date", "Time", "Home", "Score", "Away", "xG", "xG.1", "Referee">>

File(name, content) == [name |-> name, content |-> content, readonly |-> FALSE]

\* The files a raw directory may list, in the order FilePool gives them:
\* three that the pipeline processes, one that is not a table, one without a
\* Score column, one whose score has no en-dash, one that is no .csv, and the
\* output of an earlier run on the first.
FilePool ==
  <<File(<<"a", ".csv">>,
         to_csv(MakeTable(TestColumns,
                          <<BaseRow, With(BaseRow, "Score", Str(<<"1", EnDash, "1">>))>>))),
    File(<<"b", ".csv">>, to_csv(MakeTable(TestColumns, <<BaseRow>>))),
    File(<<"c", ".csv">>, to_csv(MakeTable(<<"Score", "Wk", "Date">>, <<BaseRow>>))),
    File(<<"bad", ".csv">>, Garbage),
    File(<<"d", ".csv">>, to_csv(MakeTable(<<"Wk", "Date", "Home", "Away">>, <<BaseRow>>))),
    File(<<"e", ".csv">>,
         to_csv(MakeTable(TestColumns,
                          <<With(BaseRow, "Score", Str(<<"2", Hyphen, "0">>))>>))),
    File(<<"f", ".txt">>, to_csv(MakeTable(TestColumns, <<BaseRow>>))),
    File(<<"a", "-processed", ".csv">>, to_csv(MakeTable(<<"Wk", "Score">>, <<BaseRow>>)))>>

RECURSIVE Pick(_, _)
\* The files of the pool at the positions of S, in pool order.
Pick(S, i) ==
  IF i > Len(FilePool) THEN <<>>
  ELSE IF i \in S THEN <<FilePool[i]>> \o Pick(S, i + 1) ELSE Pick(S, i + 1)

Reverse(q) == [i \in 1..Len(q) |-> q[Len(q) + 1 - i]]

\* The listings of the raw directory: at most MaxFiles files of the pool, in
\* pool order or in the opposite order.
RawListings ==
  LET sets == {S \in SUBSET (1..Len(FilePool)) : Cardinality(S) <= MaxFiles}
  IN  {Pick(S, 1) : S \in sets} \cup {Reverse(Pick(S, 1)) : S \in sets}

\* The processed directory before the run: empty, or with an output of an
\* earlier run that may not be overwritten.
ProcessedListings ==
  {<<>>,
   <<[name |-> <<"b", "-processed", ".csv">>, content |-> Garbage, readonly |-> TRUE]>>}

BatchConfigFiles ==
  {AbsentFile,
   ParsedFile([DEFAULT_CONFIG EXCEPT !.paths.processed_dir = Some("raw"),
                                     !.files.file_pattern = Some("*")]),
   ParsedFile([k \in {"columns", "team_name_corrections", "paths"} |-> DEFAULT_CONFIG[k]]),
   ParsedFile([k \in {"columns", "team_name_corrections", "files"} |-> DEFAULT_CONFIG[k]])}

(***************************************************************************)
(* Spec: process_all_csv_files (process_csv.py 435-472), with the calls of *)
(* process_csv_data (412-433) for the file at hand as the steps            *)
(***************************************************************************)
LogRecord(level, event, name) == [level |-> level, event |-> event, name |-> name]

\* The file the loop of line 461 is at.
Current == csv_files[idx]

\* CONFIG.get("files", {}).get("file_pattern", "*.csv"), line 451.
file_pattern(conf) ==
  IF "files" \in DOMAIN conf /\ "file_pattern" \in DOMAIN conf["files"]
  THEN conf["files"]["file_pattern"].val
  ELSE "*.csv"

\* Lines 445-458: the lazy init_config, the enumeration, and the return of 0
\* when nothing matches.  An exception of init_config leaves the function.
BatchStart ==
  /\ pc \in {"start", "ready"}
  /\ LET r == IF g["CONFIG"].some THEN [g |-> g, raised |-> FALSE]
              ELSE init_config(g, configFile)
     IN  /\ g' = r.g
         /\ IF r.raised
            THEN /\ pc' = "raised"
                 /\ UNCHANGED <<csv_files, idx, success_count, stage, ret, log>>
            ELSE LET found == glob(fs, r.g["RAW_DIR"].val,
                                   file_pattern(r.g["CONFIG"].val))
                 IN  IF found = <<>>
                     THEN /\ pc' = "returned"
                          /\ ret' = 0
                          /\ log' = Append(log, LogRecord("warning", "no file", <<>>))
                          /\ UNCHANGED <<csv_files, idx, success_count, stage>>
                     ELSE /\ pc' = "loop"
                          /\ csv_files' = found
                          /\ idx' = 1
                          /\ success_count' = 0
                          /\ stage' = "load"
                          /\ log' = Append(log, LogRecord("info", "found", <<>>))
                          /\ UNCHANGED ret
  /\ UNCHANGED <<configFile, normVars, cleanVars, mainVars, scraperVars, fs, work>>

\* A handler that counts the failed file as well.
on_failure_counted(lg, name) ==
  /\ log' = Append(lg, LogRecord("error", "failed", name))
  /\ success_count' = success_count + 1
  /\ idx' = idx + 1
  /\ stage' = "load"
  /\ work' = NoWork

\* A handler that tries the failed file again.
on_failure_retry(lg, name) ==
  /\ log' = Append(lg, LogRecord("error", "failed", name))
  /\ success_count' = success_count
  /\ idx' = idx
  /\ stage' = "load"
  /\ work' = NoWork

\* Lines 467-469: the exception of the file at hand is logged and the loop
\* goes on with the next file; success_count is left alone.
on_failure(lg, name) ==
  /\ log' = Append(lg, LogRecord("error", "failed", name))
  /\ success_count' = success_count
  /\ idx' = idx + 1
  /\ stage' = "load"
  /\ work' = NoWork

\* Lines 463 and 424: the file is announced, then load_csv_data.
FileLoad ==
  /\ pc = "loop" /\ stage = "load" /\ idx <= Len(csv_files)
  /\ LET r  == load_csv_data(g, configFile, fs, Current)
         lg == Append(log, LogRecord("info", "processing", Current.name))
     IN  /\ g' = r.g
         /\ IF r.raised THEN on_failure(lg, Current.name)
            ELSE /\ work' = [df |-> r.df, objectDtype |-> ObjectDtype(r.df, "Score")]
                 /\ stage' = "sanitize"
                 /\ log' = lg
                 /\ UNCHANGED <<idx, success_count>>
  /\ UNCHANGED <<configFile, pc, normVars, cleanVars, mainVars, scraperVars, fs, csv_files, ret>>

\* Line 425, first part: the sanitize steps of clean_and_transform_data.
FileSanitize ==
  /\ pc = "loop" /\ stage = "sanitize"
  /\ LET r == sanitize(g, configFile, work.df)
     IN  /\ g' = r.g
         /\ IF r.raised THEN on_failure(log, Current.name)
            ELSE /\ work' = [work EXCEPT !.df = r.df]
                 /\ stage' = "transform"
                 /\ UNCHANGED <<idx, success_count, log>>
  /\ UNCHANGED <<configFile, pc, normVars, cleanVars, mainVars, scraperVars, fs, csv_files, ret>>

\* Line 425, second part: the transform steps of clean_and_transform_data.
FileTransform ==
  /\ pc = "loop" /\ stage = "transform"
  /\ LET r == transform([g |-> g, raised |-> FALSE, err |-> NoErr, df |-> work.df],
                        configFile, work.objectDtype)
     IN  /\ g' = r.g
         /\ IF r.raised THEN on_failure(log, Current.name)
            ELSE /\ work' = [work EXCEPT !.df = r.df]
                 /\ stage' = "save"
                 /\ UNCHANGED <<idx, success_count, log>>
  /\ UNCHANGED <<configFile, pc, normVars, cleanVars, mainVars, scraperVars, fs, csv_files, ret>>

\* Lines 428-429, 432 and 465: the output name, save_to_csv, and the count.
FileSave ==
  /\ pc = "loop" /\ stage = "save"
  /\ LET r == save_to_csv(g, configFile, fs, work.df, generate_output_filename(Current))
     IN  /\ g' = r.g
         /\ fs' = r.fs
         /\ IF r.raised THEN on_failure(log, Current.name)
            ELSE /\ success_count' = success_count + 1
                 /\ idx' = idx + 1
                 /\ stage' = "load"
                 /\ work' = NoWork
                 /\ log' = Append(log, LogRecord("success", "processed", Current.name))
  /\ UNCHANGED <<configFile, pc, normVars, cleanVars, mainVars, scraperVars, csv_files, ret>>

\* Lines 471-472: after the last file the count is returned.
BatchReturn ==
  /\ pc = "loop" /\ stage = "load" /\ idx > Len(csv_files)
  /\ pc' = "returned"
  /\ ret' = success_count
  /\ stage' = "idle"
  /\ log' = Append(log, LogRecord("success", "summary", <<>>))
  /\ UNCHANGED <<g, configFile, normVars, cleanVars, mainVars, scraperVars, fs, csv_files, idx,
                 success_count, work>>

Next ==
  \/ CallInitConfig
  \/ BatchStart
  \/ FileLoad
  \/ FileSanitize
  \/ FileTransform
  \/ FileSave
  \/ BatchReturn

Init ==
  /\ g = UninitializedGlobals
  /\ configFile \in BatchConfigFiles
  /\ pc = "start"
  /\ fs \in {[raw |-> r, processed |-> p] : r \in RawListings, p \in ProcessedListings}
  /\ BatchNotStarted
  /\ MainNotStarted
  /\ ScraperNotMade
  /\ nameIn = PyNone
  /\ nameOut = NoCall
  /\ nameOut2 = NoCall
  /\ dfIn = EmptyTable
  /\ dfOut = NoResult

Spec == Init /\ [][Next]_vars

\* The program is sequential: a step that can be taken is taken.
FairSpec == Spec /\ WF_vars(Next)

(***************************************************************************)
(* Claims about process_all_csv_files, checked under Spec and FairSpec     *)
(***************************************************************************)
\* The names of the records of one event, oldest first.
Logged(event) ==
  LET hits == SelectSeq(log, LAMBDA r : r.event = event)
  IN  [i \in 1..Len(hits) |-> hits[i].name]

\* Whether process_csv_data(p) completes from the state at hand: the load,
\* clean_and_transform_data as one call, and the write of the output.
C9_Completes(p) ==
  LET l == load_csv_data(g, configFile, fs, p)
      c == clean_and_transform_data(g, configFile, l.df)
      out == Path(g["PROCESSED_DIR"].val, generate_output_filename(p))
  IN  ~l.raised /\ ~c.raised /\ Writable(fs, out)

\* Whether the outputs go to another directory than the inputs come from, so
\* that the inputs are at the end what they were when they were read.
C9_InputsKept == g["RAW_DIR"] # g["PROCESSED_DIR"]

\* C9: process_all_csv_files returns the number of enumerated files for which
\* process_csv_data completed (load, clean/transform and save all succeeded):
\* one "processed" record per counted file, one "failed" record per other
\* file, 0 when nothing matches; an exception leaves the function only from
\* the configuration, before any file is enumerated.
C9_SuccessCount ==
  /\ pc = "returned" =>
       /\ ret = Len(Logged("processed"))
       /\ Len(Logged("processed")) + Len(Logged("failed")) = Len(csv_files)
       /\ csv_files = <<>> => ret = 0
       /\ C9_InputsKept =>
            ret = Cardinality({i \in 1..Len(csv_files) : C9_Completes(csv_files[i])})
  /\ pc = "raised" => csv_files = <<>> /\ log = <<>>
  /\ pc = "loop" => success_count = Len(Logged("processed"))

\* Three files that are processed and one that is not a table: 3 is returned
\* and the failure of the fourth is in the log.
C9_Witness ==
  /\ pc = "returned"
  /\ Len(csv_files) = 4
  /\ ret = 3
  /\ Logged("failed") = <<<<"bad", ".csv">>>>
  /\ C9_InputsKept

\* Nothing matches the pattern and 0 is returned.
C9_WitnessEmpty ==
  /\ pc = "returned"
  /\ csv_files = <<>>
  /\ fs["raw"] # <<>>
  /\ ret = 0

\* The names of the files process_csv_data was called for, in call order.
Attempts == Logged("processing")

\* The content the file at a path holds.
ContentAt(fsys, p) == IF exists(fsys, p) THEN FileAt(fsys, p).content ELSE Garbage

\* C10, order: the calls so far are for the first enumerated files, one call
\* each, in enumeration order.
C10_InOrder ==
  /\ Len(Attempts) <= Len(csv_files)
  /\ \A i \in 1..Len(Attempts) : Attempts[i] = csv_files[i].name
  /\ pc = "loop" => Len(Attempts) = (IF stage = "load" THEN idx - 1 ELSE idx)
  /\ pc = "returned" => Len(Attempts) = Len(csv_files)

\* C10, isolation: a step of the loop leaves alone the globals and the
\* content of every file that is still to be read.
C10_Isolated ==
  pc = "loop" =>
    /\ g' = g
    /\ \A j \in (idx + 1)..Len(csv_files) :
         ContentAt(fs', csv_files[j]) = ContentAt(fs, csv_files[j])

\* What is left of the loop: four calls for each file still to come, fewer
\* for the file at hand.
C10_Measure ==
  4 * (Len(csv_files) - idx)
    + (CASE stage = "load" -> 4 [] stage = "sanitize" -> 3
         [] stage = "transform" -> 2 [] OTHER -> 1)

\* C10, termination: the loop is never stuck, each of its steps leaves less
\* to do, and it is left only by the return after the last file.
C10_Progress ==
  pc = "loop" =>
    \/ pc' = "loop" /\ C10_Measure' < C10_Measure
    \/ pc' = "returned" /\ C10_Measure = 0 /\ Len(Attempts) = Len(csv_files)

\* Some step of the loop has its guard.
C10_NeverStuck ==
  pc = "loop" =>
    \/ stage = "load" /\ idx <= Len(csv_files)
    \/ stage = "load" /\ idx > Len(csv_files)
    \/ stage \in {"sanitize", "transform", "save"} /\ idx \in 1..Len(csv_files)

\* C10: every enumerated file is attempted exactly once, in enumeration order,
\* whatever the outcome of the files before it, the batch then returns, and
\* processing a file changes nothing a later file reads.
C10_SequentialBatch ==
  /\ [](C10_InOrder /\ C10_NeverStuck)
  /\ [][C10_Progress /\ C10_Isolated]_vars

\* The parts of C10 about order and termination.
C10_OrderAndTermination ==
  /\ [](C10_InOrder /\ C10_NeverStuck)
  /\ [][C10_Progress]_vars

\* The isolation of C10 for the runs whose outputs go to another directory
\* than the inputs come from.
C10_IsolatedDirectories == [][C9_InputsKept => C10_Isolated]_vars

\* Whether a record of the event for the file at hand is what the step logs last.
C11_Logs(event) ==
  /\ Len(log') > Len(log)
  /\ log'[Len(log')] = LogRecord(IF event = "failed" THEN "error" ELSE "success",
                                 event, Current.name)

\* C11: a file moves only forward through load, sanitize, transform and save.
\* A step of the loop either takes the file at hand to the next stage, writing
\* nothing, or ends it: saved, from the save stage only, or failed, with no
\* file written; either way the loop is then at the next file, and no file is
\* attempted twice.
C11_ForwardOnly ==
  [][pc = "loop" /\ pc' = "loop" =>
       \/ /\ idx' = idx
          /\ <<stage, stage'>> \in {<<"load", "sanitize">>, <<"sanitize", "transform">>,
                                    <<"transform", "save">>}
          /\ fs' = fs
          /\ Logged("failed")' = Logged("failed")
          /\ Logged("processed")' = Logged("processed")
       \/ /\ stage = "save"
          /\ idx' = idx + 1 /\ stage' = "load"
          /\ C11_Logs("processed")
          /\ Logged("failed")' = Logged("failed")
       \/ /\ idx' = idx + 1 /\ stage' = "load"
          /\ fs' = fs
          /\ C11_Logs("failed")
          /\ Logged("processed")' = Logged("processed")]_vars

\* No file is attempted twice, and none has two outcomes.
C11_OnceEach ==
  LET outcomes == Logged("processed") \o Logged("failed")
  IN  /\ \A i, j \in 1..Len(Attempts) : Attempts[i] = Attempts[j] => i = j
      /\ \A i, j \in 1..Len(outcomes) : outcomes[i] = outcomes[j] => i = j
      /\ \A i \in 1..Len(outcomes) : \E j \in 1..Len(Attempts) : Attempts[j] = outcomes[i]

C11_StateMachine == C11_ForwardOnly /\ []C11_OnceEach

\* A batch in which the file without a Score column and the file with a
\* hyphen score failed, no output exists for either, and the file after them
\* was saved.
C11_Witness ==
  /\ pc = "returned"
  /\ Logged("failed") = <<<<"d", ".csv">>, <<"e", ".csv">>>>
  /\ Logged("processed") # <<>>
  /\ C9_InputsKept
  /\ ~exists(fs, Path("processed", <<"d", "-processed", ".csv">>))
  /\ ~exists(fs, Path("processed", <<"e", "-processed", ".csv">>))
  /\ Attempts[Len(Attempts)] \notin {<<"d", ".csv">>, <<"e", ".csv">>}

(***************************************************************************)
(* SpecFile: a caller of process_csv_data (single-file mode)               *)
(***************************************************************************)
\* The listings of a directory with at most two files of the pool.
SmallListings ==
  {Pick(S, 1) : S \in {S \in SUBSET (1..Len(FilePool)) : Cardinality(S) <= 2}}

\* The working directory: empty, or with a file of its own and a file that has
\* the name of a file of the pool.
WorkingListings ==
  {<<>>,
   <<File(<<"local", ".csv">>, FilePool[2].content),
     File(<<"a", ".csv">>, FilePool[3].content)>>}

FileSystems ==
  {("raw" :> r) @@ ("processed" :> p) @@ ("." :> w) :
     r \in SmallListings, p \in ProcessedListings, w \in WorkingListings}

\* The paths process_csv_data is called with: the files of the pool in the raw
\* directory, a file that is nowhere, and relative paths.
InputPaths ==
  {Path("raw", FilePool[i].name) : i \in 1..Len(FilePool)}
    \cup {Path("raw", <<"missing", ".csv">>), Path(".", <<"missing", ".csv">>),
          Path(".", <<"a", ".csv">>), Path(".", <<"b", ".csv">>),
          Path(".", <<"local", ".csv">>)}

FileConfigFiles ==
  {AbsentFile,
   ParsedFile([DEFAULT_CONFIG EXCEPT !.paths.processed_dir = Some("raw")]),
   ParsedFile([DEFAULT_CONFIG EXCEPT !.columns = STRICT_COLUMNS]),
   ParsedFile([k \in {"columns", "team_name_corrections", "files"} |-> DEFAULT_CONFIG[k]])}

InitFile ==
  /\ g = UninitializedGlobals
  /\ configFile \in FileConfigFiles
  /\ pc = "start"
  /\ fs \in FileSystems
  /\ BatchNotStarted
  /\ csv_arg \in InputPaths
  /\ result = NoResult
  /\ args = NoArgs
  /\ exit_code = -1
  /\ ScraperNotMade
  /\ nameIn = PyNone
  /\ nameOut = NoCall
  /\ nameOut2 = NoCall
  /\ dfIn = EmptyTable
  /\ dfOut = NoResult

\* process_csv_data(csv_arg), with or without an earlier init_config.
CallProcess ==
  /\ pc \in {"start", "ready"}
  /\ \E r \in {process_csv_data(g, configFile, fs, csv_arg)} :
       /\ g' = r.g
       /\ fs' = r.fs
       /\ result' = [raised |-> r.raised, err |-> r.err, df |-> r.df]
  /\ pc' = "processed"
  /\ UNCHANGED <<configFile, normVars, cleanVars, scraperVars, csv_files, idx, success_count,
                 stage, work, ret, log, csv_arg, args, exit_code>>

NextFile == CallInitConfig \/ CallProcess

SpecFile == InitFile /\ [][NextFile]_vars

(***************************************************************************)
(* Claims about process_csv_data, checked under SpecFile                   *)
(***************************************************************************)
\* The file the call reads, with the globals gl: the path itself, or for a
\* relative path that does not exist the file of that name in RAW_DIR.
C12_Input(gl) ==
  IF csv_arg.dir = "." /\ ~exists(fs, csv_arg)
  THEN Path(gl["RAW_DIR"].val, csv_arg.name)
  ELSE csv_arg

\* The input is there and is a table.
C12_Readable(gl) ==
  exists(fs, C12_Input(gl)) /\ FileAt(fs, C12_Input(gl)).content.kind = "csv"

\* A required column is not among the columns the input keeps.
C12_SchemaFails(gl) ==
  LET kept == Range(FileAt(fs, C12_Input(gl)).content.table.cols)
                \ Range(gl["COLUMNS_TO_DROP"].val)
  IN  \E c \in Range(gl["REQUIRED_COLUMNS"].val) : c \notin kept

C12_Output(gl) == Path(gl["PROCESSED_DIR"].val, generate_output_filename(csv_arg))

\* C12: process_csv_data raises when the input cannot be located or read,
\* when a required column is missing and when the output cannot be written;
\* a load or schema failure leaves every file as it was; and a call that
\* returns has met none of these conditions and has written its output.
C12_FailFast ==
  [][pc' = "processed" =>
       IF ~g'["LOG_DIR"].some THEN result'.raised /\ fs' = fs
       ELSE /\ ~C12_Readable(g') => result'.raised /\ fs' = fs
            /\ C12_Readable(g') /\ C12_SchemaFails(g') => result'.raised /\ fs' = fs
            /\ ~Writable(fs, C12_Output(g')) => result'.raised
            /\ ~result'.raised =>
                 /\ C12_Readable(g') /\ ~C12_SchemaFails(g')
                 /\ Writable(fs, C12_Output(g'))
                 /\ exists(fs', C12_Output(g'))
                 /\ FileAt(fs', C12_Output(g')).content = to_csv(result'.df)]_vars

\* A call that raised for a missing required column, with no output written.
C12_Witness ==
  /\ pc = "processed"
  /\ result.raised /\ result.err.type = "ValueError" /\ result.err.col # ""
  /\ g["LOG_DIR"].some
  /\ C12_Readable(g)
  /\ ~exists(fs, C12_Output(g))

\* A call that raised because the input is nowhere.
C12_WitnessLoad ==
  /\ pc = "processed" /\ result.raised
  /\ g["LOG_DIR"].some /\ ~exists(fs, C12_Input(g))

\* A call that raised because the output may not be overwritten.
C12_WitnessSave ==
  /\ pc = "processed" /\ result.raised /\ result.err.type = "IOError"
  /\ g["LOG_DIR"].some /\ exists(fs, C12_Output(g))

(***************************************************************************)
(* SpecMain: main (process_csv.py 474-513)                                 *)
(***************************************************************************)
\* CONFIG.get("files", {}).get("process_all", False), line 491.
process_all_option(conf) ==
  IF "files" \in DOMAIN conf /\ "process_all" \in DOMAIN conf["files"]
  THEN conf["files"]["process_all"].val
  ELSE FALSE

\* Whether CONFIG["files"]["default_csv"] raises KeyError, line 503.
default_csv_raises(conf) ==
  "files" \notin DOMAIN conf \/ "default_csv" \notin DOMAIN conf["files"]

\* os.path.join(RAW_DIR, os.path.basename(CONFIG["files"]["default_csv"])),
\* line 503; the configuration of the model holds the stem of the base name.
default_csv_path(gl) ==
  Path(gl["RAW_DIR"].val, <<gl["CONFIG"].val["files"]["default_csv"].val, ".csv">>)

SINGLE_FILES ==
  [default_csv |-> Some("a"), process_all |-> Some(FALSE), file_pattern |-> Some("*.csv")]

MainConfigFiles ==
  {AbsentFile,
   ParsedFile([DEFAULT_CONFIG EXCEPT !.files = SINGLE_FILES]),
   ParsedFile([DEFAULT_CONFIG EXCEPT !.files = SINGLE_FILES, !.columns = STRICT_COLUMNS]),
   ParsedFile([k \in {"columns", "team_name_corrections", "paths"} |-> DEFAULT_CONFIG[k]]),
   ParsedFile([k \in {"columns", "team_name_corrections", "files"} |-> DEFAULT_CONFIG[k]]),
   EmptyFile,
   ParsedFile([k \in {"team_name_corrections", "paths", "files"} |-> DEFAULT_CONFIG[k]]),
   ParsedFile([k \in {"columns", "paths", "files"} |-> DEFAULT_CONFIG[k]])}
  \cup {ParsedFile([DEFAULT_CONFIG EXCEPT
                      !.columns = [k \in DOMAIN DEFAULT_COLUMNS \ {list} |->
                                     DEFAULT_COLUMNS[k]]]) :
          list \in DOMAIN DEFAULT_COLUMNS}

\* The command lines: --all or not, --csv with a path or not.
Arguments ==
  {[all |-> a, csv |-> p] :
     a \in BOOLEAN,
     p \in {NoPath, Path("raw", <<"b", ".csv">>), Path("raw", <<"bad", ".csv">>),
            Path(".", <<"d", ".csv">>), Path(".", <<"local", ".csv">>)}}

InitMain ==
  /\ g = UninitializedGlobals
  /\ configFile \in MainConfigFiles
  /\ pc = "main"
  /\ fs \in FileSystems
  /\ args \in Arguments
  /\ BatchNotStarted
  /\ csv_arg = NoPath
  /\ result = NoResult
  /\ exit_code = -1
  /\ ScraperNotMade
  /\ nameIn = PyNone
  /\ nameOut = NoCall
  /\ nameOut2 = NoCall
  /\ dfIn = EmptyTable
  /\ dfOut = NoResult

\* A main in which a --csv argument takes precedence over process_all.
MainStart_csv_first ==
  /\ pc = "main"
  /\ \E r \in {init_config(g, configFile)} :
       /\ g' = r.g
       /\ IF r.raised
          THEN pc' = "exited" /\ exit_code' = 1
          ELSE /\ pc' = IF /\ args.csv = NoPath
                           /\ args.all \/ process_all_option(r.g["CONFIG"].val)
                        THEN "ready" ELSE "single"
               /\ UNCHANGED exit_code
  /\ UNCHANGED <<configFile, normVars, cleanVars, scraperVars, batchVars, csv_arg, result, args>>

\* Lines 476-491 and 510-513: init_config(args.config), the logger, and the
\* choice of the mode; an exception of init_config ends main with 1.
MainStart ==
  /\ pc = "main"
  /\ \E r \in {init_config(g, configFile)} :
       /\ g' = r.g
       /\ IF r.raised
          THEN pc' = "exited" /\ exit_code' = 1
          ELSE /\ pc' = IF args.all \/ process_all_option(r.g["CONFIG"].val)
                        THEN "ready" ELSE "single"
               /\ UNCHANGED exit_code
  /\ UNCHANGED <<configFile, normVars, cleanVars, scraperVars, batchVars, csv_arg, result, args>>

\* Lines 502-508 and 510-513: the single file is processed; 0 when
\* process_csv_data returned, 1 when anything raised.
MainSingle ==
  /\ pc = "single"
  /\ IF default_csv_raises(g["CONFIG"].val)
     THEN /\ exit_code' = 1
          /\ UNCHANGED <<g, fs, csv_arg, result>>
     ELSE \E p \in {IF args.csv # NoPath THEN args.csv ELSE default_csv_path(g)} :
          \E r \in {process_csv_data(g, configFile, fs, p)} :
            /\ csv_arg' = p
            /\ g' = r.g
            /\ fs' = r.fs
            /\ result' = [raised |-> r.raised, err |-> r.err, df |-> r.df]
            /\ exit_code' = IF r.raised THEN 1 ELSE 0
  /\ pc' = "exited"
  /\ UNCHANGED <<configFile, normVars, cleanVars, scraperVars, csv_files, idx, success_count,
                 stage, work, ret, log, args>>

\* A main that reports a batch with a failed file as a failure.
MainReturn_counting_failures ==
  /\ pc \in {"returned", "raised"}
  /\ exit_code' = IF pc = "raised" \/ ret < Len(csv_files) THEN 1 ELSE 0
  /\ pc' = "exited"
  /\ UNCHANGED <<g, configFile, normVars, cleanVars, scraperVars, batchVars, csv_arg, result, args>>

\* Lines 495-500, 508 and 510-513: after process_all_csv_files returned main
\* returns 0 whatever the count; 1 had it raised.
MainReturn ==
  /\ pc \in {"returned", "raised"}
  /\ exit_code' = IF pc = "raised" THEN 1 ELSE 0
  /\ pc' = "exited"
  /\ UNCHANGED <<g, configFile, normVars, cleanVars, scraperVars, batchVars, csv_arg, result, args>>

NextMain ==
  \/ MainStart
  \/ MainSingle
  \/ BatchStart
  \/ FileLoad
  \/ FileSanitize
  \/ FileTransform
  \/ FileSave
  \/ BatchReturn
  \/ MainReturn

SpecMain == InitMain /\ [][NextMain]_vars

(***************************************************************************)
(* Claims about main, checked under SpecMain                               *)
(***************************************************************************)
\* C14: main returns 0 in batch mode whatever happened to the files, also
\* when all failed or none matched; in single-file mode 0 when the file was
\* processed and saved and 1 when processing it raised.
C14_ExitCode ==
  pc = "exited" =>
    /\ exit_code \in {0, 1}
    /\ ret # -1 => exit_code = 0 /\ csv_arg = NoPath
    /\ g["LOG_DIR"].some /\ (args.all \/ process_all_option(g["CONFIG"].val)) => ret # -1
    /\ csv_arg # NoPath =>
         /\ exit_code = IF result.raised THEN 1 ELSE 0
         /\ ~result.raised =>
              /\ exists(fs, C12_Output(g))
              /\ FileAt(fs, C12_Output(g)).content = to_csv(result.df)

\* A batch in which every file failed, and main returned 0.
C14_Witness ==
  /\ pc = "exited"
  /\ csv_files # <<>> /\ ret = 0
  /\ Len(Logged("failed")) = Len(csv_files)
  /\ exit_code = 0

\* A batch in which no file matched.
C14_WitnessEmpty == pc = "exited" /\ ret = 0 /\ csv_files = <<>> /\ exit_code = 0

\* A single file that was saved, and one that raised.
C14_WitnessSingle == pc = "exited" /\ csv_arg # NoPath /\ ~result.raised /\ exit_code = 0

C14_WitnessSingleFailed ==
  pc = "exited" /\ csv_arg # NoPath /\ result.raised /\ exit_code = 1

\* Whether the run asks for batch mode: --all, or files.process_all true.
C24_AsksBatch == args.all \/ process_all_option(g["CONFIG"].val)

\* C24: a main that got past init_config has run process_all_csv_files, and
\* has handed no path to process_csv_data, exactly when --all was given or
\* files.process_all is true; otherwise it has run no batch and has handed
\* over the --csv path, or the default one without --csv.  With the default
\* configuration (no file) the batch has run over every file of the raw
\* directory that matches the pattern, with or without --csv.
C24_ModeChoice ==
  pc = "exited" /\ g["LOG_DIR"].some =>
    /\ C24_AsksBatch =>
         /\ ret # -1 /\ csv_arg = NoPath /\ result = NoResult
         /\ Attempts = [i \in 1..Len(csv_files) |-> csv_files[i].name]
    /\ ~C24_AsksBatch =>
         /\ ret = -1 /\ log = <<>> /\ csv_files = <<>>
         /\ ~default_csv_raises(g["CONFIG"].val) =>
              csv_arg = IF args.csv # NoPath THEN args.csv ELSE default_csv_path(g)
    /\ configFile = AbsentFile =>
         /\ g["CONFIG"].val = DEFAULT_CONFIG
         /\ C24_AsksBatch
         /\ csv_files = glob(fs, g["RAW_DIR"].val, file_pattern(DEFAULT_CONFIG))

\* C24 witness: the default configuration, --csv with a path and no --all,
\* and the batch went over two files or more and never over the path alone.
C24_Witness ==
  /\ pc = "exited" /\ configFile = AbsentFile
  /\ ~args.all /\ args.csv # NoPath
  /\ Len(csv_files) >= 2 /\ Len(Attempts) = Len(csv_files)
  /\ csv_arg = NoPath

\* Single-file mode with the --csv path, and with the default path.
C24_WitnessSingle ==
  /\ pc = "exited" /\ g["LOG_DIR"].some /\ ~C24_AsksBatch
  /\ args.csv # NoPath /\ csv_arg = args.csv

C24_WitnessDefaultCsv ==
  /\ pc = "exited" /\ g["LOG_DIR"].some /\ ~C24_AsksBatch
  /\ ~default_csv_raises(g["CONFIG"].val)
  /\ args.csv = NoPath /\ csv_arg = default_csv_path(g)

\* The six column lists init_config reads.
C25_ColumnLists ==
  {"rows_to_drop", "columns_to_drop", "required_columns", "cols_to_convert_int",
   "cols_to_convert_float", "cols_order"}

\* Whether a file that exists and parses is empty or lacks the columns
\* section, one of the six lists, team_name_corrections or paths.
C25_Lacks(file) ==
  \/ file.kind = "empty"
  \/ /\ file.kind = "parsed"
     /\ \/ "columns" \notin DOMAIN file.conf
        \/ \E list \in C25_ColumnLists : list \notin DOMAIN file.conf["columns"]
        \/ "team_name_corrections" \notin DOMAIN file.conf
        \/ "paths" \notin DOMAIN file.conf

\* The global a list, team_name_corrections or a directory is stored in,
\* when the file does not have it.
C25_LackingGlobals(file) ==
  {InitSteps[i][1] : i \in {j \in 1..Len(InitSteps) :
     \/ file.kind = "empty"
     \/ InitSteps[j][2] \notin DOMAIN file.conf
     \/ /\ InitSteps[j][3] # ""
        /\ InitSteps[j][3] \notin DOMAIN file.conf[InitSteps[j][2]]}}

\* C25: once main has called init_config on a file that exists and parses,
\* CONFIG is what the parser returned (None for an empty file), sections
\* and keys the file leaves out are not there, and no global of a missing
\* entry has a value; when the file is empty or lacks columns, one of the six
\* lists, team_name_corrections or paths, main has ended with exit code 1
\* and has looked at no file.
C25_NoMerge ==
  configFile.kind \in {"parsed", "empty"} /\ pc # "main" =>
    /\ g["CONFIG"] = IF configFile.kind = "parsed" THEN Some(configFile.conf) ELSE None
    /\ \A n \in C25_LackingGlobals(configFile) : ~g[n].some
    /\ C25_Lacks(configFile) =>
         /\ pc = "exited" /\ exit_code = 1
         /\ ~g["LOG_DIR"].some
         /\ ret = -1 /\ csv_arg = NoPath /\ log = <<>>

\* C25 witness: a file with everything but cols_order, and main returned 1
\* with CONFIG as parsed and COLS_ORDER never set.
C25_Witness ==
  /\ pc = "exited" /\ exit_code = 1
  /\ configFile.kind = "parsed"
  /\ DOMAIN configFile.conf = DOMAIN DEFAULT_CONFIG
  /\ DOMAIN configFile.conf["columns"] = C25_ColumnLists \ {"cols_order"}
  /\ g["CONFIG"] = Some(configFile.conf)
  /\ g["COLS_TO_CONVERT_FLOAT"].some /\ ~g["COLS_ORDER"].some

\* An empty file, and a file without paths.
C25_WitnessEmpty ==
  pc = "exited" /\ exit_code = 1 /\ configFile = EmptyFile /\ g["CONFIG"] = None

C25_WitnessNoPaths ==
  /\ pc = "exited" /\ exit_code = 1
  /\ configFile.kind = "parsed" /\ "paths" \notin DOMAIN configFile.conf
  /\ g["TEAM_NAME_CORRECTIONS"].some /\ ~g["RAW_DIR"].some

\* A file without the files section passes init_config: nothing is filled in.
C25_WitnessNoFiles ==
  /\ pc = "exited" /\ exit_code = 1
  /\ configFile.kind = "parsed" /\ "files" \notin DOMAIN configFile.conf
  /\ g["LOG_DIR"].some /\ g["CONFIG"] = Some(configFile.conf)

\* The base name without its final extension, read off the end of the name.
C16_Base(name) ==
  IF \E base \in {SubSeq(name, 1, Len(name) - 1)} :
       base # <<>> /\ \E ext \in Suffixes : name = Append(base, ext)
  THEN SubSeq(name, 1, Len(name) - 1)
  ELSE name

C16_Names ==
  {<<"test-data", ".csv">>, <<"a", ".tar", ".csv">>, <<"notes">>, <<".csv">>,
   <<"a", "-processed", ".csv">>, <<"f", ".txt">>}

\* C16: the output name is the base name of the input without its directory
\* and final extension, followed by "-processed.csv"; a call that returns has
\* written the transformed table under that name in the processed directory
\* and returns that table.
C16_OutputName ==
  [][pc' = "processed" =>
       /\ \A d \in {"raw", ".", "tmp"}, n \in C16_Names \cup {csv_arg.name} :
            generate_output_filename(Path(d, n)) = C16_Base(n) \o <<"-processed", ".csv">>
       /\ generate_output_filename(Path("tmp", <<"test-data", ".csv">>))
            = <<"test-data", "-processed", ".csv">>
       /\ ~result'.raised =>
            LET out == Path(g'["PROCESSED_DIR"].val,
                            C16_Base(csv_arg.name) \o <<"-processed", ".csv">>)
                raw_data == read_csv(FileAt(fs, C12_Input(g')).content).df
            IN  /\ exists(fs', out)
                /\ FileAt(fs', out).content = to_csv(result'.df)
                /\ result'.df = clean_and_transform_data(g', configFile, raw_data).df
                /\ \A d \in DOMAIN fs : \A i \in 1..Len(fs[d]) :
                     Path(d, fs[d][i].name) # out => fs'[d][i] = fs[d][i]]_vars

\* A relative path whose file is in the working directory, processed and saved
\* in the processed directory.
C16_Witness ==
  /\ pc = "processed" /\ ~result.raised
  /\ csv_arg = Path(".", <<"local", ".csv">>)
  /\ exists(fs, Path(g["PROCESSED_DIR"].val, <<"local", "-processed", ".csv">>))
  /\ result.df.rows # <<>>

(***************************************************************************)
(* WebScraper (src/src/scraping/scrapers.py)                               *)
(*                                                                         *)
(* A URL is the sequence of its parts between the slashes, each part the   *)
(* sequence of its elements between the dashes.  A configuration is a      *)
(* function from its keys; "options" maps option names to values.          *)
(***************************************************************************)
\* The dates pd.to_datetime understands, with their years.
DateYears ==
  (<<"2024-08-17">> :> 2024) @@ (<<"2024-08-18">> :> 2024) @@ (<<"2025-05-25">> :> 2025)

\* pd.to_datetime(value, errors='coerce'): the value itself for a date, NaT
\* for the rest (line 157).
to_datetime(c) == IF IsStr(c) /\ c.v \in DOMAIN DateYears THEN c ELSE NaN

\* str.isdigit() of a URL element.
isdigit(el) == el \in {"2023", "2024", "9"}

Excluded == {"Scores", "and", "Fixtures"}

\* Lines 198-203 and 207-211: the elements that are not excluded.
league_parts(elements) == SelectSeq(elements, LAMBDA el : el \notin Excluded)

\* extract_league_name(url), lines 176-215: the elements of the part after
\* "schedule" (without a leading season), else of the last part, joined by
\* dashes.
extract_league_name(url) ==
  LET at == {i \in 1..Len(url) : url[i] = <<"schedule">>}
      schedule_index == CHOOSE i \in at : \A j \in at : i <= j
      name_part == url[schedule_index + 1]
      elements  == IF Len(name_part) >= 2 /\ isdigit(name_part[1]) /\ isdigit(name_part[2])
                   THEN SubSeq(name_part, 3, Len(name_part))
                   ELSE name_part
      words(els) == [i \in 1..Len(els) |-> <<els[i]>>]
  IN  IF at # {} /\ schedule_index + 1 <= Len(url)
      THEN join(<<Hyphen>>, words(league_parts(elements)))
      ELSE join(<<Hyphen>>, words(league_parts(url[Len(url)])))

\* generate_csv_filename(df), lines 136-172: [raised, df, name].  The Date
\* column of the table is converted in place.
generate_csv_filename(url, df) ==
  IF ~HasCol(df, "Date") THEN [raised |-> TRUE, df |-> df, name |-> <<>>]
  ELSE LET d == SetCol(df, "Date", [i \in 1..Len(df.rows) |-> to_datetime(df.rows[i]["Date"])])
           years == {DateYears[d.rows[i]["Date"].v] :
                       i \in {j \in 1..Len(d.rows) : ~IsNull(d.rows[j]["Date"])}}
           start_year == CHOOSE y \in years : \A z \in years : y <= z
           end_year   == CHOOSE y \in years : \A z \in years : y >= z
       IN  IF years = {} THEN [raised |-> TRUE, df |-> d, name |-> <<>>]
           ELSE [raised |-> FALSE, df |-> d,
                 name |-> extract_league_name(url) \o <<Hyphen>> \o Digits(start_year)
                            \o <<Hyphen>> \o Digits(end_year) \o <<".csv">>]

NoName == <<>>

\* WebScraper.save_to_csv(filename), lines 226-268, on the scraper sc and the
\* file system fsys: [scraper, raised, err, ret, fs].  filename is NoName when
\* none is given.
scraper_save_to_csv(sc, fsys, filename) ==
  LET out(s, r, e, v, f) ==
        [scraper |-> s, raised |-> r, err |-> e, ret |-> v, fs |-> f]
      gen == generate_csv_filename(sc.url, sc.data.val)
      sc2 == IF filename = NoName THEN [sc EXCEPT !.data = Some(gen.df)] ELSE sc
      csv_path == Path("raw", IF filename = NoName THEN gen.name ELSE filename)
  IN  IF "options" \notin DOMAIN sc.config
      THEN out(sc, TRUE, Err("KeyError", ""), FALSE, fsys)
      ELSE IF "save_raw_data" \in DOMAIN sc.config["options"]
              /\ ~sc.config["options"]["save_raw_data"]
      THEN out(sc, FALSE, NoErr, FALSE, fsys)
      ELSE IF ~sc.data.some
      THEN out(sc, TRUE, Err("ValueError", ""), FALSE, fsys)
      ELSE IF filename = NoName /\ gen.raised
      THEN out(sc2, TRUE, Err("ValueError", "Date"), FALSE, fsys)
      ELSE IF ~Writable(fsys, csv_path)
      THEN out(sc2, TRUE, Err("IOError", ""), FALSE, fsys)
      ELSE out(sc2, FALSE, NoErr, TRUE, WriteFile(fsys, csv_path, to_csv(sc2.data.val)))

\* WebScraper.parse_data(), lines 120-133, on what the page holds:
\* [scraper, raised, err].
parse_data(sc, pg) ==
  IF pg.kind = "tables" /\ pg.tables # <<>>
  THEN [scraper |-> [sc EXCEPT !.data = Some(pg.tables[1])], raised |-> FALSE,
        err |-> NoErr]
  ELSE [scraper |-> sc, raised |-> TRUE, err |-> Err("Exception", "")]

(***************************************************************************)
(* SpecScraper: one WebScraper, its page, and calls of parse_data and      *)
(* save_to_csv in any order                                                *)
(***************************************************************************)
\* The URL of tests/test_scraping.py, one with a season, and one without a
\* "schedule" part.
ScraperUrls ==
  {<<<<"fbref.com">>, <<"comps">>, <<"9">>, <<"schedule">>,
     <<"Premier", "League", "Scores", "and", "Fixtures">>>>,
   <<<<"fbref.com">>, <<"comps">>, <<"9">>, <<"2023", "2024">>, <<"schedule">>,
     <<"2023", "2024", "Premier", "League", "Scores", "and", "Fixtures">>>>,
   <<<<"fbref.com">>, <<"La", "Liga", "Fixtures">>>>}

\* What config_url.yaml may hold: saving on, saving off, no save_raw_data
\* option, and no options at all.
ScraperConfigs ==
  {("urls" :> <<>>) @@ ("options" :> ("save_raw_data" :> TRUE)),
   ("urls" :> <<>>) @@ ("options" :> ("save_raw_data" :> FALSE)),
   ("urls" :> <<>>) @@ ("options" :> ("default_league" :> TRUE)),
   ("urls" :> <<>>)}

\* The tables of a page: with dates of one or two years, with no valid date,
\* and without a Date column.
ScrapedTables ==
  {MakeTable(<<"Wk", "Date", "Home", "Score", "Away">>, <<BaseRow>>),
   MakeTable(<<"Wk", "Date", "Home", "Score", "Away">>,
             <<BaseRow, With(BaseRow, "Date", Str(<<"2025-05-25">>)),
               With(BaseRow, "Date", Str(<<"soon">>))>>),
   MakeTable(<<"Wk", "Date", "Home", "Score", "Away">>, <<With(BaseRow, "Date", NaN)>>),
   MakeTable(<<"Wk", "Home", "Score", "Away">>, <<BaseRow>>)}

\* What pd.read_html finds: an error, no table, or tables.
Pages ==
  {[kind |-> "error", tables |-> <<>>], [kind |-> "tables", tables |-> <<>>]}
    \cup {[kind |-> "tables", tables |-> <<t>>] : t \in ScrapedTables}
    \cup {[kind |-> "tables", tables |-> <<t, MakeTable(<<"Wk">>, <<BaseRow>>)>>] :
            t \in ScrapedTables}

CustomName == <<"custom", ".csv">>

\* The raw directory before the scraper runs: empty, or with files of the
\* names the scraper writes, one of them not writable.
ScraperListings ==
  {<<>>,
   <<File(CustomName, Garbage)>>,
   <<[File(CustomName, Garbage) EXCEPT !.readonly = TRUE],
     File(<<"Premier", Hyphen, "League", Hyphen, "2", "0", "2", "4", Hyphen,
            "2", "0", "2", "4", ".csv">>, Garbage)>>}

InitScraper ==
  /\ g = UninitializedGlobals
  /\ configFile = AbsentFile
  /\ pc = "scraper"
  /\ fs \in {("raw" :> r) @@ ("processed" :> <<>>) @@ ("." :> <<>>) : r \in ScraperListings}
  /\ csv_files = <<>>
  /\ idx = 0
  /\ success_count = 0
  /\ stage = "idle"
  /\ work = NoWork
  /\ ret = -1
  /\ log = <<>>
  /\ MainNotStarted
  /\ scraper \in {[config |-> c, url |-> u, data |-> None] :
                    c \in ScraperConfigs, u \in ScraperUrls}
  /\ page \in Pages
  /\ scrapeOut = NoOutcome
  /\ LeaguesNotStarted
  /\ nameIn = PyNone
  /\ nameOut = NoCall
  /\ nameOut2 = NoCall
  /\ dfIn = EmptyTable
  /\ dfOut = NoResult

\* scraper.parse_data()
ParseData ==
  /\ pc = "scraper"
  /\ \E r \in {parse_data(scraper, page)} :
       /\ scraper' = r.scraper
       /\ scrapeOut' = [op |-> "parse_data", raised |-> r.raised, err |-> r.err,
                        ret |-> FALSE]
  /\ UNCHANGED <<g, configFile, pc, normVars, cleanVars, batchVars, mainVars, page,
                 leagueVars>>

\* scraper.save_to_csv(filename), with and without a file name.
SaveToCsv ==
  /\ pc = "scraper"
  /\ \E filename \in {NoName, CustomName} :
       \E r \in {scraper_save_to_csv(scraper, fs, filename)} :
         /\ scraper' = r.scraper
         /\ fs' = r.fs
         /\ scrapeOut' = [op |-> "save_to_csv", raised |-> r.raised, err |-> r.err,
                          ret |-> r.ret]
  /\ UNCHANGED <<g, configFile, pc, normVars, cleanVars, mainVars, page, csv_files, idx,
                 success_count, stage, work, ret, log, leagueVars>>

NextScraper == ParseData \/ SaveToCsv

SpecScraper == InitScraper /\ [][NextScraper]_vars

(***************************************************************************)
(* Claims about WebScraper, checked under SpecScraper                      *)
(***************************************************************************)
\* C17: save_to_csv on a scraper whose data is None raises an error and
\* writes no file, whatever the configuration of the scraper (also when
\* options.save_raw_data is false).
C17_NoDataRaises ==
  [][(SaveToCsv /\ ~scraper.data.some) => (scrapeOut'.raised /\ fs' = fs)]_vars

\* The part of C17 that the code keeps: without data no file is written, and
\* the call raises whenever saving is not switched off.
C17_NoDataNoFile ==
  [][(SaveToCsv /\ ~scraper.data.some) =>
       /\ fs' = fs
       /\ ~scrapeOut'.ret
       /\ scrapeOut'.raised <=>
            ~("options" \in DOMAIN scraper.config
              /\ "save_raw_data" \in DOMAIN scraper.config["options"]
              /\ ~scraper.config["options"]["save_raw_data"])]_vars

\* A save on a scraper without data has run and returned without raising.
C17_WitnessSilent ==
  /\ scrapeOut.op = "save_to_csv"
  /\ ~scraper.data.some
  /\ ~scrapeOut.raised

(***************************************************************************)
(* scrape_league and scrape_all_leagues (scrapers.py 312-390)              *)
(*                                                                         *)
(* config["urls"] is the sequence of its items [key, url] in file order;   *)
(* an empty URL is the empty sequence.                                     *)
(***************************************************************************)
\* load_config of scrapers.py, lines 38-66: [raised, conf].  A missing file
\* and invalid YAML raise; an empty file gives None.
scrapers_load_config(file) ==
  CASE file.kind = "absent"  -> [raised |-> TRUE, conf |-> None]
    [] file.kind = "invalid" -> [raised |-> TRUE, conf |-> None]
    [] file.kind = "empty"   -> [raised |-> FALSE, conf |-> None]
    [] file.kind = "parsed"  -> [raised |-> FALSE, conf |-> Some(file.conf)]

\* key in urls
has_key(urls, key) == \E i \in 1..Len(urls) : urls[i].key = key

\* urls[key]
urls_get(urls, key) == urls[CHOOSE i \in 1..Len(urls) : urls[i].key = key].url

\* WebScraper(url, config_path), lines 96-108: [raised, scraper].  Without a
\* URL the scraper takes the URL of options.default_league.
WebScraper(url, file) ==
  LET c == scrapers_load_config(file)
      failed == [raised |-> TRUE, scraper |-> [config |-> <<>>, url |-> <<>>, data |-> None]]
      made(u) == [raised |-> FALSE,
                  scraper |-> [config |-> c.conf.val, url |-> u, data |-> None]]
  IN  IF c.raised THEN failed
      ELSE IF url # <<>> THEN made(url)
      ELSE IF ~c.conf.some \/ "options" \notin DOMAIN c.conf.val
              \/ "default_league" \notin DOMAIN c.conf.val["options"]
              \/ "urls" \notin DOMAIN c.conf.val
              \/ ~has_key(c.conf.val["urls"], c.conf.val["options"]["default_league"])
      THEN failed
      ELSE made(urls_get(c.conf.val["urls"], c.conf.val["options"]["default_league"]))

\* What pd.read_html finds at a URL of the web w.
page_at(w, url) ==
  IF url \in DOMAIN w THEN w[url] ELSE [kind |-> "error", tables |-> <<>>]

\* scrape_league(league_key, save=save, config_path), lines 330-359, with no
\* url argument: [raised, df, fs].  save is None or a boolean.
scrape_league(file, w, fsys, league_key, save) ==
  LET c == scrapers_load_config(file)
      failed(f) == [raised |-> TRUE, df |-> EmptyTable, fs |-> f]
  IN  IF c.raised \/ ~c.conf.some \/ "urls" \notin DOMAIN c.conf.val THEN failed(fsys)
      ELSE IF ~has_key(c.conf.val["urls"], league_key) THEN failed(fsys)
      ELSE The({
        IF made.raised THEN failed(fsys)
        ELSE The({
          IF parsed.raised THEN failed(fsys)
          ELSE IF ~save.some /\ "options" \notin DOMAIN c.conf.val THEN failed(fsys)
          ELSE IF ~(IF save.some THEN save.val
                    ELSE IF "save_raw_data" \in DOMAIN c.conf.val["options"]
                         THEN c.conf.val["options"]["save_raw_data"] ELSE TRUE)
          THEN [raised |-> FALSE, df |-> parsed.scraper.data.val, fs |-> fsys]
          ELSE The({
            IF saved.raised THEN failed(saved.fs)
            ELSE [raised |-> FALSE, df |-> saved.scraper.data.val, fs |-> saved.fs]
            : saved \in {scraper_save_to_csv(parsed.scraper, fsys, NoName)}})
          : parsed \in {parse_data(made.scraper, page_at(w, made.scraper.url))}})
        : made \in {WebScraper(urls_get(c.conf.val["urls"], league_key), file)}})

\* results[key] = df: a new key is added last, a key that is there keeps its
\* place.
dict_set(items, key, df) ==
  IF \E i \in 1..Len(items) : items[i].key = key
  THEN [i \in 1..Len(items) |-> IF items[i].key = key THEN [key |-> key, df |-> df]
                                ELSE items[i]]
  ELSE Append(items, [key |-> key, df |-> df])

\* A loop that a failure ends.
next_league_break(i, raised, n) == IF raised THEN n + 1 ELSE i + 1

\* Lines 381-388: the loop goes to the next item after a league that returned
\* and, by the continue of line 388, after one that raised.
next_league(i, raised, n) == i + 1

(***************************************************************************)
(* SpecLeagues: scrape_all_leagues, one league of the loop per step        *)
(***************************************************************************)
PremierLeagueUrl ==
  <<<<"fbref.com">>, <<"comps">>, <<"9">>, <<"schedule">>,
    <<"Premier", "League", "Scores", "and", "Fixtures">>>>

LaLigaUrl == <<<<"fbref.com">>, <<"La", "Liga", "Fixtures">>>>

Item(key, url) == [key |-> key, url |-> url]

\* What config_url.yaml may hold: two leagues with saving on, three leagues
\* (one without a URL) with saving off, two leagues and no save_raw_data
\* option, no league, a league and no options, a league whose default league
\* is not there, and no file.
LeagueConfigFiles ==
  {ParsedFile(("urls" :> <<Item("premier_league", PremierLeagueUrl),
                           Item("la_liga", LaLigaUrl)>>)
              @@ ("options" :> (("save_raw_data" :> TRUE)
                                @@ ("default_league" :> "premier_league")))),
   ParsedFile(("urls" :> <<Item("premier_league", PremierLeagueUrl),
                           Item("serie_a", <<>>),
                           Item("la_liga", LaLigaUrl)>>)
              @@ ("options" :> (("save_raw_data" :> FALSE)
                                @@ ("default_league" :> "la_liga")))),
   ParsedFile(("urls" :> <<Item("la_liga", LaLigaUrl),
                           Item("premier_league", PremierLeagueUrl)>>)
              @@ ("options" :> ("default_league" :> "la_liga"))),
   ParsedFile(("urls" :> <<>>) @@ ("options" :> ("save_raw_data" :> TRUE))),
   ParsedFile("urls" :> <<Item("premier_league", PremierLeagueUrl)>>),
   ParsedFile(("urls" :> <<Item("serie_a", <<>>), Item("la_liga", LaLigaUrl)>>)
              @@ ("options" :> ("default_league" :> "bundesliga"))),
   AbsentFile}

\* What a league's page may hold: an error, a table with dates, and a table
\* without a Date column.
LeaguePages ==
  {[kind |-> "error", tables |-> <<>>],
   [kind |-> "tables",
    tables |-> <<MakeTable(<<"Wk", "Date", "Home", "Score", "Away">>, <<BaseRow>>)>>],
   [kind |-> "tables",
    tables |-> <<MakeTable(<<"Wk", "Home", "Score", "Away">>, <<BaseRow>>)>>]}

\* The raw directory before the run: empty, or with a file of the name La
\* Liga is saved under that may not be written.
LeagueListings ==
  {<<>>,
   <<[File(<<"La", Hyphen, "Liga", Hyphen, "2", "0", "2", "4", Hyphen,
             "2", "0", "2", "4", ".csv">>, Garbage) EXCEPT !.readonly = TRUE]>>}

InitLeagues ==
  /\ g = UninitializedGlobals
  /\ configFile = AbsentFile
  /\ pc = "all"
  /\ fs \in {("raw" :> r) @@ ("processed" :> <<>>) @@ ("." :> <<>>) : r \in LeagueListings}
  /\ csv_files = <<>>
  /\ idx = 0
  /\ success_count = 0
  /\ stage = "idle"
  /\ work = NoWork
  /\ ret = -1
  /\ log = <<>>
  /\ MainNotStarted
  /\ scraper = [config |-> <<>>, url |-> <<>>, data |-> None]
  /\ page = [kind |-> "none", tables |-> <<>>]
  /\ scrapeOut = NoOutcome
  /\ urlConfigFile \in LeagueConfigFiles
  /\ web \in [{PremierLeagueUrl, LaLigaUrl} -> LeaguePages]
  /\ save_arg \in {None, Some(TRUE), Some(FALSE)}
  /\ should_save = FALSE
  /\ league_idx = 0
  /\ results = <<>>
  /\ scrape_log = <<>>
  /\ nameIn = PyNone
  /\ nameOut = NoCall
  /\ nameOut2 = NoCall
  /\ dfIn = EmptyTable
  /\ dfOut = NoResult

\* The items the loop of line 381 goes through.
LeagueItems == urlConfigFile.conf["urls"]

\* Lines 375-381: the configuration is loaded, should_save is set and the
\* loop begins; an exception here leaves scrape_all_leagues.
AllStart ==
  /\ pc = "all"
  /\ \E c \in {scrapers_load_config(urlConfigFile)} :
       IF \/ c.raised
          \/ ~c.conf.some
          \/ ~save_arg.some /\ "options" \notin DOMAIN c.conf.val
          \/ "urls" \notin DOMAIN c.conf.val
       THEN /\ pc' = "all_raised"
            /\ UNCHANGED <<should_save, league_idx>>
       ELSE /\ pc' = "leagues"
            /\ should_save' =
                 IF save_arg.some THEN save_arg.val
                 ELSE IF "save_raw_data" \in DOMAIN c.conf.val["options"]
                      THEN c.conf.val["options"]["save_raw_data"] ELSE TRUE
            /\ league_idx' = 1
  /\ UNCHANGED <<g, configFile, normVars, cleanVars, batchVars, mainVars, scraper, page,
                 scrapeOut, urlConfigFile, web, save_arg, results, scrape_log>>

\* Lines 381-388 for one item: scrape_league inside the try; its DataFrame
\* goes to results, an exception to the log.
LeagueScrape ==
  /\ pc = "leagues"
  /\ league_idx <= Len(LeagueItems)
  /\ \E r \in {scrape_league(urlConfigFile, web, fs, LeagueItems[league_idx].key,
                              Some(should_save))} :
       /\ fs' = r.fs
       /\ results' = IF r.raised THEN results
                     ELSE dict_set(results, LeagueItems[league_idx].key, r.df)
       /\ scrape_log' =
            scrape_log \o <<LogRecord("info", "scraping", LeagueItems[league_idx].key)>>
              \o (IF r.raised
                  THEN <<LogRecord("error", "failed", LeagueItems[league_idx].key)>>
                  ELSE <<>>)
       /\ league_idx' = next_league(league_idx, r.raised, Len(LeagueItems))
  /\ UNCHANGED <<g, configFile, pc, normVars, cleanVars, mainVars, csv_files, idx,
                 success_count, stage, work, ret, log, scraper, page, scrapeOut,
                 urlConfigFile, web, save_arg, should_save>>

\* Line 390: return results.
AllReturn ==
  /\ pc = "leagues"
  /\ league_idx > Len(LeagueItems)
  /\ pc' = "all_returned"
  /\ UNCHANGED <<g, configFile, normVars, cleanVars, batchVars, mainVars, scraperVars>>

NextLeagues == AllStart \/ LeagueScrape \/ AllReturn

SpecLeagues == InitLeagues /\ [][NextLeagues]_vars

(***************************************************************************)
(* Claims about scrape_all_leagues, checked under SpecLeagues              *)
(***************************************************************************)
\* The keys of the records of the scrapers' log with the given event.
LeagueLogged(event) ==
  LET hits == SelectSeq(scrape_log, LAMBDA rec : rec.event = event)
  IN  [i \in 1..Len(hits) |-> hits[i].name]

\* The keys of the configuration, in file order.
LeagueKeys == [i \in 1..Len(LeagueItems) |-> LeagueItems[i].key]

\* Whether the scrape of a league, and its save when saving is on, completes
\* without error.
LeagueCompletes(key) == ~scrape_league(urlConfigFile, web, fs, key, Some(should_save)).raised

\* C23: the leagues attempted so far are the first keys of the configuration,
\* once each and in order; each of them is in the dictionary exactly when
\* its scrape (and save, when saving is on) completed without error, and is
\* in the log as failed otherwise; and when scrape_all_leagues returns every
\* key has been attempted.
C23_FailSoft ==
  pc \in {"leagues", "all_returned"} =>
    /\ league_idx \in 1..(Len(LeagueItems) + 1)
    /\ LeagueLogged("scraping") = SubSeq(LeagueKeys, 1, league_idx - 1)
    /\ [i \in 1..Len(results) |-> results[i].key] =
         SelectSeq(SubSeq(LeagueKeys, 1, league_idx - 1), LeagueCompletes)
    /\ LeagueLogged("failed") =
         SelectSeq(SubSeq(LeagueKeys, 1, league_idx - 1),
                   LAMBDA key : ~LeagueCompletes(key))
    /\ pc = "all_returned" => league_idx = Len(LeagueItems) + 1

\* C23 witness: scrape_all_leagues returned after three leagues of which the
\* first failed and the last is in the dictionary.
C23_Witness ==
  /\ pc = "all_returned"
  /\ Len(LeagueItems) = 3
  /\ LeagueLogged("failed") # <<>>
  /\ LeagueLogged("failed")[1] = LeagueKeys[1]
  /\ \E i \in 1..Len(results) : results[i].key = LeagueKeys[3]

\* A league whose save failed is not in the dictionary while one scraped
\* after it is.
C23_WitnessSaveFailed ==
  /\ pc = "all_returned"
  /\ should_save
  /\ LeagueLogged("failed") = <<"la_liga">>
  /\ [i \in 1..Len(results) |-> results[i].key] = <<"premier_league">>
  /\ web[LaLigaUrl].kind = "tables"
  /\ LeagueKeys = <<"la_liga", "premier_league">>

(***************************************************************************)
(* SpecRun: one run of the program: init_config on the path the caller     *)
(* gives (main line 481, args.config), then the pipeline stages, whose     *)
(* lazy init_config() reads the default path config_csv.yaml.              *)
(* clean_and_transform_data runs as the stage of process_csv_data and of   *)
(* the batch loop.                                                         *)
(***************************************************************************)
\* setup_logger, lines 105-106: the lazy init_config.
setup_logger(gl, file) ==
  IF gl["LOG_DIR"].some THEN [g |-> gl, raised |-> FALSE] ELSE init_config(gl, file)

\* What the file at args.config may hold: nothing, the defaults with a null
\* or empty rows_to_drop, with null or empty corrections, and a file without
\* its columns section.
RunArgConfigFiles ==
  {AbsentFile,
   ParsedFile([DEFAULT_CONFIG EXCEPT !.columns.rows_to_drop = None]),
   ParsedFile([DEFAULT_CONFIG EXCEPT !.columns.rows_to_drop = Some(<<>>)]),
   ParsedFile([DEFAULT_CONFIG EXCEPT !.team_name_corrections = None]),
   ParsedFile([DEFAULT_CONFIG EXCEPT !.team_name_corrections = Some(<<>>)]),
   ParsedFile([k \in {"team_name_corrections", "paths", "files"} |-> DEFAULT_CONFIG[k]])}

\* What config_csv.yaml may hold in such a run.
RunDefaultConfigFiles ==
  {AbsentFile,
   ParsedFile([DEFAULT_CONFIG EXCEPT !.columns.rows_to_drop = None]),
   ParsedFile([DEFAULT_CONFIG EXCEPT !.team_name_corrections = None])}

InitRun ==
  /\ g = UninitializedGlobals
  /\ configFile \in RunDefaultConfigFiles
  /\ pc = "start"
  /\ fs \in {("raw" :> Pick({1, 2}, 1)) @@ ("processed" :> <<>>) @@ ("." :> <<>>),
             ("raw" :> Pick({4}, 1)) @@ ("processed" :> <<>>) @@ ("." :> <<>>)}
  /\ BatchNotStarted
  /\ csv_arg \in {Path("raw", FilePool[1].name), Path("raw", <<"missing", ".csv">>)}
  /\ result = NoResult
  /\ args = NoArgs
  /\ exit_code = -1
  /\ ScraperNotMade
  /\ nameIn \in {Str(<<"Man", SP, "Utd">>), Str(<<"Tottenham", SP, "Spurs">>)}
  /\ nameOut = NoCall
  /\ nameOut2 = NoCall
  /\ dfIn = EmptyTable
  /\ dfOut = NoResult

\* init_config(config_path) on the file the caller names.
InitConfigAt ==
  /\ pc = "start"
  /\ \E file \in RunArgConfigFiles :
       \E r \in {init_config(g, file)} :
         /\ g' = r.g
         /\ pc' = IF r.raised THEN "exit" ELSE "ready"
  /\ UNCHANGED <<configFile, normVars, cleanVars, batchVars, mainVars, scraperVars>>

\* setup_logger(), with or without an earlier init_config.
CallSetupLogger ==
  /\ pc \in {"start", "ready"}
  /\ \E r \in {setup_logger(g, configFile)} :
       /\ g' = r.g
       /\ pc' = IF r.raised THEN "exit" ELSE "logging"
  /\ UNCHANGED <<configFile, normVars, cleanVars, batchVars, mainVars, scraperVars>>

NextRun ==
  \/ InitConfigAt
  \/ CallInitConfig
  \/ CallSetupLogger
  \/ CallNormalize
  \/ CallNormalizeAgain
  \/ CallProcess
  \/ BatchStart
  \/ FileLoad
  \/ FileSanitize
  \/ FileTransform
  \/ FileSave
  \/ BatchReturn

SpecRun == InitRun /\ [][NextRun]_vars

(***************************************************************************)
(* Claims about the configuration of a run, checked under SpecRun          *)
(***************************************************************************)
\* init_config has run to its end: LOG_DIR is its last assignment (line 86).
Configured == g["LOG_DIR"].some

\* C18: once init_config has completed, no pipeline stage loads the
\* configuration again or changes a configuration global, whatever the
\* accepted configuration holds (also a null rows_to_drop or a null
\* team_name_corrections).
C18_LoadedOnce == [][Configured => g' = g]_vars

\* The part of C18 that the code keeps: the globals stay as they are when
\* neither ROWS_TO_DROP nor TEAM_NAME_CORRECTIONS was loaded as None.
C18_LoadedOnceUnlessNull ==
  [][(Configured /\ g["ROWS_TO_DROP"].some /\ g["TEAM_NAME_CORRECTIONS"].some)
       => g' = g]_vars

\* A stage has run on globals that init_config had completed with a None
\* ROWS_TO_DROP, and they now hold a list.
C18_WitnessReloaded ==
  /\ pc = "processed"
  /\ Configured
  /\ g["ROWS_TO_DROP"].some
  /\ g["CONFIG"].val.columns.rows_to_drop = g["ROWS_TO_DROP"]

(***************************************************************************)
(* Claims about clean_and_transform_data, checked under SpecClean          *)
(***************************************************************************)
Returned == pc = "cleaned" /\ ~dfOut.raised
ColsOrder == g["COLS_ORDER"].val

\* C1: whenever clean_and_transform_data returns, the returned table's column
\* sequence is the columns of cols_order that the table has at projection
\* time (all of them, after schema completion), in cols_order's order, and
\* no other column remains; with the default configuration that is Wk, Date,
\* Time, Home, xG_Home, Score_Home, Score_Away, xG_Away, Away.
C1_OutputColumns ==
  Returned =>
    /\ dfOut.df.cols = ColsOrder
    /\ \A i \in 1..Len(dfOut.df.rows) : DOMAIN dfOut.df.rows[i] = Range(ColsOrder)
    /\ configFile = AbsentFile =>
         dfOut.df.cols = <<"Wk", "Date", "Time", "Home", "xG_Home", "Score_Home",
                           "Score_Away", "xG_Away", "Away">>

\* C1 witness: a table whose columns came in the reverse order was returned
\* with the default order.
C1_Witness ==
  /\ Returned
  /\ configFile = AbsentFile
  /\ dfIn.cols = <<"Referee", "xG.1", "xG", "Away", "Score", "Home", "Time", "Date", "Wk">>
  /\ Len(dfOut.df.rows) = 2
  /\ dfOut.df.cols[1] = "Wk" /\ dfOut.df.cols[9] = "Away"

\* The table as it stands when schema completion runs (line 292).
C2_BeforeCompletion ==
  drop_xg(split_score(consolidate_xg(sanitize(g, configFile, dfIn)),
                      ObjectDtype(dfIn, "Score"))).df

\* C2: every cols_order column that the table lacks when schema completion
\* runs is in the returned table with a null in every row, Home and Away
\* included.
C2_MissingColumnsNull ==
  Returned =>
    \A c \in Range(ColsOrder) :
      ~HasCol(C2_BeforeCompletion, c) =>
        \A i \in 1..Len(dfOut.df.rows) : IsNull(dfOut.df.rows[i][c])

\* The rows that survive row removal, in order: row i of the returned table
\* comes from row i of this table.
SurvivingRows == drop_missing_rows([g |-> g, raised |-> FALSE, err |-> NoErr, df |-> dfIn]).df.rows

\* Whether the Score column reaches the split (it is there after sanitize).
ScoreReachesSplit ==
  LET st == sanitize(g, configFile, dfIn) IN ~st.raised /\ HasCol(st.df, "Score")

C3_EnDashes(c) == IF IsStr(c) THEN Cardinality({j \in 1..Len(c.v) : c.v[j] = EnDash}) ELSE 0

\* C3: when the table has a Score column the score split never raises; a
\* Score value without exactly one en-dash gives that row null Score_Home
\* and Score_Away.
C3_SplitNeverRaises ==
  (pc = "cleaned" /\ ScoreReachesSplit) =>
    /\ ~(dfOut.raised /\ dfOut.err \in {Err("ValueError", ""), Err("AttributeError", "")})
    /\ (~dfOut.raised /\ {"Score_Home", "Score_Away"} \subseteq Range(ColsOrder)) =>
         \A i \in 1..Len(dfOut.df.rows) :
           C3_EnDashes(SurvivingRows[i]["Score"]) # 1 =>
             /\ IsNull(dfOut.df.rows[i]["Score_Home"])
             /\ IsNull(dfOut.df.rows[i]["Score_Away"])

RECURSIVE C4_Value(_, _)
\* The number a digit sequence writes, read left to right from acc.
C4_Value(ds, acc) ==
  IF ds = <<>> THEN acc ELSE C4_Value(Tail(ds), 10 * acc + DigitVal(Head(ds)))

C4_IsNumeral(ds) == ds # <<>> /\ \A j \in 1..Len(ds) : IsDigit(ds[j])

\* Whether the cell is "h-a" with an en-dash at position p between two numerals.
C4_IsScoreAt(c, p) ==
  /\ IsStr(c) /\ p \in 1..Len(c.v) /\ c.v[p] = EnDash
  /\ C4_IsNumeral(SubSeq(c.v, 1, p - 1))
  /\ C4_IsNumeral(SubSeq(c.v, p + 1, Len(c.v)))

\* C4: whenever clean_and_transform_data returns, every row whose Score is two
\* non-negative integer numerals h and a around one en-dash has Score_Home = h
\* and Score_Away = a, as integers (where cols_order keeps those columns), and
\* the returned table has no Score column (unless cols_order names one).
C4_ScoreSplit ==
  (Returned /\ ScoreReachesSplit) =>
    /\ \A i \in 1..Len(dfOut.df.rows) : \A p \in 1..Len(SurvivingRows[i]["Score"].v) :
         C4_IsScoreAt(SurvivingRows[i]["Score"], p) =>
           LET s == SurvivingRows[i]["Score"].v
           IN  /\ "Score_Home" \in Range(ColsOrder) =>
                    dfOut.df.rows[i]["Score_Home"] = IntCell(C4_Value(SubSeq(s, 1, p - 1), 0))
               /\ "Score_Away" \in Range(ColsOrder) =>
                    dfOut.df.rows[i]["Score_Away"] = IntCell(C4_Value(SubSeq(s, p + 1, Len(s)), 0))
    /\ "Score" \notin Range(ColsOrder) => ~HasCol(dfOut.df, "Score")

\* C4 witness: a returned row whose Score was "2-0" (en-dash) has Score_Home 2
\* and Score_Away 0, and the table has no Score column.
C4_Witness ==
  /\ Returned
  /\ HasCol(dfIn, "Score")
  /\ Len(dfOut.df.rows) >= 1
  /\ HasCol(dfOut.df, "Score_Home") /\ HasCol(dfOut.df, "Score_Away")
  /\ SurvivingRows[1]["Score"] = Str(<<"2", EnDash, "0">>)
  /\ dfOut.df.rows[1]["Score_Home"] = IntCell(2)
  /\ dfOut.df.rows[1]["Score_Away"] = IntCell(0)
  /\ ~HasCol(dfOut.df, "Score")

\* The required columns that the table lacks after the column-drop step.
C5_Missing ==
  SelectSeq(g["REQUIRED_COLUMNS"].val,
            LAMBDA c : c \notin Range(dfIn.cols) \/ c \in Range(g["COLUMNS_TO_DROP"].val))

C5_MissingColumnError == dfOut.raised /\ dfOut.err.type = "ValueError" /\ dfOut.err.col # ""

\* C5: clean_and_transform_data fails with the error that names a missing
\* column exactly when a required column is absent after the column-drop
\* step; with the default configuration a table without Score fails with the
\* error naming Score, and a table that lacks only columns that are not
\* required passes the check.
C5_RequiredColumns ==
  pc = "cleaned" =>
    /\ C5_MissingColumnError <=> C5_Missing # <<>>
    /\ C5_MissingColumnError => dfOut.err.col \in Range(C5_Missing)
    /\ (configFile = AbsentFile /\ "Score" \notin Range(dfIn.cols)) =>
         (C5_MissingColumnError /\ dfOut.err.col = "Score")

\* C5 witness: with the default configuration a table with Wk, Date, Home and
\* Away but no Score failed with the error naming Score.
C5_Witness ==
  /\ pc = "cleaned"
  /\ configFile = AbsentFile
  /\ dfIn.cols = <<"Wk", "Date", "Home", "Away">>
  /\ dfOut.raised /\ dfOut.err = Err("ValueError", "Score")

\* A table that lacks only the optional Venue was processed to the end.
C5_WitnessOptional ==
  /\ Returned
  /\ configFile = AbsentFile
  /\ ~HasCol(dfIn, "Venue")
  /\ Len(dfOut.df.rows) = 2

(***************************************************************************)
(* Claims about normalize_team_name, checked under SpecNormalize           *)
(***************************************************************************)
Corrections == g["TEAM_NAME_CORRECTIONS"]

\* The token rule as the specification words it, in one left-to-right scan:
\* a token ends at whitespace or at the end of the name, is looked up in the
\* corrections, and is written after a single space unless it resolved to "".
C6_Flush(corr, tok, out) ==
  LET r == IF tok \in DOMAIN corr THEN corr[tok] ELSE tok
  IN  IF tok = <<>> \/ r = <<>> THEN out
      ELSE IF out = <<>> THEN r ELSE out \o <<SP>> \o r

RECURSIVE C6_Scan(_, _, _, _)
C6_Scan(corr, s, tok, out) ==
  IF s = <<>> THEN C6_Flush(corr, tok, out)
  ELSE IF Head(s) = SP \/ Head(s) = TAB
       THEN C6_Scan(corr, Tail(s), <<>>, C6_Flush(corr, tok, out))
       ELSE C6_Scan(corr, Tail(s), tok \o <<Head(s)>>, out)

\* The expected results of tests/test_preprocessing.py lines 51-57.
C6_Examples ==
  (<<"Man", SP, "Utd">> :> <<"Manchester", SP, "United">>) @@
  (<<"Wolves">> :> <<"Wolverhampton", SP, "Wanderers">>) @@
  (<<"Liverpool", SP, "FC">> :> <<"Liverpool">>) @@
  (<<"Tottenham", SP, "Spurs">> :> <<"Tottenham", SP, "Hotspur">>) @@
  (<<"Brighton">> :> <<"Brighton", SP, "&", SP, "Hove", SP, "Albion">>) @@
  (<<"West", SP, "Ham", SP, "Utd">> :> <<"West", SP, "Ham", SP, "United">>) @@
  (<<"Arsenal", SP, "AFC">> :> <<"Arsenal">>)

\* C6: for a string team name and a corrections mapping, normalize_team_name
\* returns "Tottenham Hotspur" for exactly "Tottenham Spurs", and otherwise the
\* whitespace-split tokens, each replaced by its correction when it is a key,
\* tokens resolving to "" dropped, joined by single spaces; with the default
\* corrections the seven names of the test give the test's results.
C6_NormalizeTokens ==
  (pc = "called" /\ IsStr(nameIn) /\ Corrections.some) =>
    /\ ~nameOut.raised
    /\ nameOut.val =
         IF nameIn.v = <<"Tottenham", SP, "Spurs">>
         THEN Str(<<"Tottenham", SP, "Hotspur">>)
         ELSE Str(C6_Scan(Corrections.val, nameIn.v, <<>>, <<>>))
    /\ (Corrections.val = DEFAULT_CORRECTIONS /\ nameIn.v \in DOMAIN C6_Examples) =>
         nameOut.val = Str(C6_Examples[nameIn.v])

\* C6 witness: "Arsenal AFC" was normalized to "Arsenal" with the default
\* corrections (the deleted token left no space behind).
C6_Witness ==
  /\ pc = "called"
  /\ nameIn = Str(<<"Arsenal", SP, "AFC">>)
  /\ Corrections = Some(DEFAULT_CORRECTIONS)
  /\ nameOut = [raised |-> FALSE, val |-> Str(<<"Arsenal">>)]

\* No chained substitution: no replacement value has a whitespace-delimited
\* token that is itself a key.
C7_NoChain(corr) ==
  \A k \in DOMAIN corr : \A i \in 1..Len(split(corr[k])) : split(corr[k])[i] \notin DOMAIN corr

\* C7: normalize_team_name is idempotent on every string team name, whatever
\* its whitespace, when the corrections have no chained substitution:
\* normalize(normalize(t)) = normalize(t).
C7_Idempotent ==
  (pc = "done" /\ IsStr(nameIn) /\ Corrections.some /\ C7_NoChain(Corrections.val)) =>
    (~nameOut2.raised /\ nameOut2.val = nameOut.val)

\* C8: normalize_team_name is pure and total: in every program state, for
\* every input, a call returns without raising and changes no program state.
C8_PureTotal ==
  [][(pc' \in {"called", "done"}) =>
       /\ g' = g
       /\ ~nameOut'.raised
       /\ ~nameOut2'.raised]_vars

(***************************************************************************)
(* More claims about clean_and_transform_data, checked under SpecClean     *)
(***************************************************************************)
\* The call raised in the integer conversion of line 309.
C15_CoercionRaised ==
  dfOut.raised /\ dfOut.err.type = "TypeError" /\ dfOut.err.col # ""

\* C15: numeric coercion never makes clean_and_transform_data fail, and in
\* the returned table every value of a cols_to_convert_int column is null or
\* a whole number and every value of a cols_to_convert_float column is null
\* or a number.
C15_CoercionNeverFails ==
  pc = "cleaned" =>
    /\ ~C15_CoercionRaised
    /\ ~dfOut.raised =>
         \A i \in 1..Len(dfOut.df.rows) :
           /\ \A c \in Range(g["COLS_TO_CONVERT_INT"].val) \cap Range(dfOut.df.cols) :
                LET v == dfOut.df.rows[i][c]
                IN  IsNull(v) \/ (IsNum(v) /\ v.v[1] % 10 = 0)
           /\ \A c \in (Range(g["COLS_TO_CONVERT_FLOAT"].val) \cap Range(dfOut.df.cols))
                        \ Range(g["COLS_TO_CONVERT_INT"].val) :
                LET v == dfOut.df.rows[i][c]
                IN  IsNull(v) \/ IsNum(v)

\* The rows_to_drop columns that the input table has.
C19_Present == {c \in Range(g["ROWS_TO_DROP"].val) : c \in Range(dfIn.cols)}

\* The positions of the input rows with no null in any of those columns.
C19_Kept ==
  {i \in 1..Len(dfIn.rows) : \A c \in C19_Present : ~IsNull(dfIn.rows[i][c])}

\* The k-th position of C19_Kept, counting from 1.
C19_Nth(k) == CHOOSE i \in C19_Kept : Cardinality({j \in C19_Kept : j <= i}) = k

\* The state the row-removal step leaves, given the input table.
C19_AfterRows == drop_missing_rows([g |-> g, raised |-> FALSE, err |-> NoErr, df |-> dfIn])

\* C19: the row-removal step removes a row exactly when the row has a null in
\* a column that is in rows_to_drop and in the table, keeps the other rows as
\* they are and in their order, and raises nothing; when the table has no
\* rows_to_drop column no row goes.  The table that clean_and_transform_data
\* returns has one row for each row kept.
C19_RowRemoval ==
  pc = "cleaned" =>
    /\ ~C19_AfterRows.raised
    /\ C19_AfterRows.df.cols = dfIn.cols
    /\ Len(C19_AfterRows.df.rows) = Cardinality(C19_Kept)
    /\ \A k \in 1..Cardinality(C19_Kept) :
         C19_AfterRows.df.rows[k] = dfIn.rows[C19_Nth(k)]
    /\ C19_Present = {} => C19_AfterRows.df = dfIn
    /\ Returned => Len(dfOut.df.rows) = Cardinality(C19_Kept)

\* C19 witness: of two rows, the first with a null Date and the second with
\* none, the call returned the second only.
C19_Witness ==
  /\ Returned
  /\ configFile = AbsentFile
  /\ Len(dfIn.rows) = 2
  /\ HasCol(dfIn, "Date")
  /\ IsNull(dfIn.rows[1]["Date"])
  /\ C19_Kept = {2}
  /\ Len(dfOut.df.rows) = 1

\* A table with none of the rows_to_drop columns was returned with all its
\* rows.
C19_WitnessNoColumn ==
  /\ Returned
  /\ C19_Present = {}
  /\ Len(dfIn.rows) = 2
  /\ Len(dfOut.df.rows) = 2

\* The columns of the input table that columns_to_drop does not list.
C20_KeptCols ==
  SelectSeq(dfIn.cols, LAMBDA c : c \notin Range(g["COLUMNS_TO_DROP"].val))

\* The kept rows of the input table, in order, without the dropped columns.
C20_Expected ==
  [cols |-> C20_KeptCols,
   rows |-> [k \in 1..Cardinality(C19_Kept) |->
               [c \in Range(C20_KeptCols) |-> dfIn.rows[C19_Nth(k)][c]]]]

\* The columns listed in rows_to_drop and in columns_to_drop that the input
\* table has.
C20_DroppedKeys ==
  {c \in C19_Present : c \in Range(g["COLUMNS_TO_DROP"].val)}

\* The columns listed in columns_to_drop and in required_columns.
C20_DroppedRequired ==
  {c \in Range(g["REQUIRED_COLUMNS"].val) : c \in Range(g["COLUMNS_TO_DROP"].val)}

\* The state the sanitize steps leave, given the input table.
C20_AfterSanitize == sanitize(g, configFile, dfIn)

\* C20: the sanitize steps run as row removal, column removal, required-column
\* check.  A column in rows_to_drop and in columns_to_drop removes the rows
\* that are null in it and is then dropped itself; the check looks at the
\* columns left after the drop, so a column in columns_to_drop and in
\* required_columns fails the check for every table.
C20_SanitizeOrder ==
  pc = "cleaned" =>
    /\ C20_AfterSanitize.raised <=>
         \E c \in Range(g["REQUIRED_COLUMNS"].val) : c \notin Range(C20_KeptCols)
    /\ ~C20_AfterSanitize.raised => C20_AfterSanitize.df = C20_Expected
    /\ Returned =>
         \A c \in C20_DroppedKeys :
           /\ Len(dfOut.df.rows) <=
                Cardinality({i \in 1..Len(dfIn.rows) : ~IsNull(dfIn.rows[i][c])})
           /\ c \notin Range(ColsOrder) => ~HasCol(dfOut.df, c)
    /\ C20_DroppedRequired # {} => C5_MissingColumnError

\* C20 witness: with the default configuration, of two rows the one with a
\* null Venue was removed and Venue was dropped from the one returned.
C20_Witness ==
  /\ Returned
  /\ configFile = AbsentFile
  /\ HasCol(dfIn, "Venue")
  /\ Len(dfIn.rows) = 2
  /\ IsNull(dfIn.rows[1]["Venue"])
  /\ C19_Kept = {2}
  /\ Len(dfOut.df.rows) = 1
  /\ ~HasCol(dfOut.df, "Venue")

\* A table with a Venue column failed the check under a configuration that
\* drops Venue and requires it.
C20_WitnessDroppedRequired ==
  /\ pc = "cleaned"
  /\ "Venue" \in C20_DroppedRequired
  /\ HasCol(dfIn, "Venue")
  /\ dfOut.raised
  /\ dfOut.err = Err("ValueError", "Venue")

\* The floating-point value of an expected-goals cell: a number is itself, a
\* string "w" or "w.f" of digits is the number it writes (in tenths), and
\* anything else is null.
C21_Number(c) ==
  IF IsNum(c) THEN c
  ELSE IF ~IsStr(c) THEN NaN
  ELSE IF C4_IsNumeral(c.v) THEN Num(10 * C4_Value(c.v, 0))
  ELSE IF /\ Len(c.v) >= 3
          /\ c.v[Len(c.v) - 1] = Dot
          /\ C4_IsNumeral(SubSeq(c.v, 1, Len(c.v) - 2))
          /\ IsDigit(c.v[Len(c.v)])
       THEN Num(10 * C4_Value(SubSeq(c.v, 1, Len(c.v) - 2), 0) + DigitVal(c.v[Len(c.v)]))
  ELSE NaN

\* The input table with a number in every xG and xG.1 cell.
C21_NumericXG ==
  [dfIn EXCEPT !.rows =
     [i \in 1..Len(dfIn.rows) |->
        [c \in DOMAIN dfIn.rows[i] |->
           IF c \in {"xG", "xG.1"} THEN Num(0) ELSE dfIn.rows[i][c]]]]

\* C21: whenever clean_and_transform_data returns a table made from one with
\* an xG column, each returned row's xG_Home is the number in its input row's
\* xG, null when that is no number, whatever xG_Home the input had; likewise
\* xG.1 and xG_Away (where cols_order keeps those columns).  The returned
\* table has neither xG nor xG.1, and whether the call raises does not depend
\* on the xG and xG.1 values.
C21_ExpectedGoals ==
  pc = "cleaned" =>
    /\ Returned =>
         /\ ~HasCol(dfOut.df, "xG") /\ ~HasCol(dfOut.df, "xG.1")
         /\ \A p \in {<<"xG", "xG_Home">>, <<"xG.1", "xG_Away">>} :
              (HasCol(dfIn, p[1]) /\ p[2] \in Range(ColsOrder)) =>
                \A k \in 1..Len(dfOut.df.rows) :
                  dfOut.df.rows[k][p[2]] = C21_Number(dfIn.rows[C19_Nth(k)][p[1]])
    /\ dfOut.raised = clean_and_transform_data(g, configFile, C21_NumericXG).raised

\* C21 witness: a table with xG 1.8 and an xG_Home of its own of 9.9 was
\* returned with xG_Home 1.8.
C21_Witness ==
  /\ Returned
  /\ HasCol(dfIn, "xG") /\ HasCol(dfIn, "xG_Home")
  /\ Len(dfIn.rows) = 1
  /\ dfIn.rows[1]["xG"] = Num(18) /\ dfIn.rows[1]["xG_Home"] = Num(99)
  /\ Len(dfOut.df.rows) = 1 /\ HasCol(dfOut.df, "xG_Home")
  /\ dfOut.df.rows[1]["xG_Home"] = Num(18)

\* A row with xG "n/a" and xG.1 "0.7" was returned with a null xG_Home and
\* xG_Away 0.7.
C21_WitnessNonNumeric ==
  /\ Returned
  /\ configFile = AbsentFile
  /\ Len(dfIn.rows) = 1
  /\ HasCol(dfIn, "xG") /\ HasCol(dfIn, "xG.1")
  /\ dfIn.rows[1]["xG"] = Str(<<"n/a">>)
  /\ IsNull(dfOut.df.rows[1]["xG_Home"])
  /\ dfOut.df.rows[1]["xG_Away"] = Num(7)

\* The table the steps give when team-name normalization is left out.
C22_NotNormalized ==
  reorder_columns(convert_float(convert_int(complete_schema(
    [g |-> g, raised |-> FALSE, err |-> NoErr, df |-> C2_BeforeCompletion])))).df

\* C22: whenever clean_and_transform_data returns, each returned row's Home
\* and Away are normalize_team_name of the Home and Away of its input row
\* (for a table that has the column, where cols_order keeps it), and every
\* other column holds what it holds without the normalization.
C22_TeamNames ==
  Returned =>
    /\ \A c \in {"Home", "Away"} :
         (HasCol(dfIn, c) /\ c \in Range(ColsOrder)) =>
           \A k \in 1..Len(dfOut.df.rows) :
             dfOut.df.rows[k][c] =
               normalize_team_name(g, configFile, dfIn.rows[C19_Nth(k)][c]).val
    /\ \A c \in Range(dfOut.df.cols) \ {"Home", "Away"} :
         \A k \in 1..Len(dfOut.df.rows) :
           dfOut.df.rows[k][c] = C22_NotNormalized.rows[k][c]

\* C22 witness: with the default configuration "Man Utd" at home against
\* "Wolves" was returned as "Manchester United" against "Wolverhampton
\* Wanderers", with its time as it was.
C22_Witness ==
  /\ Returned
  /\ configFile = AbsentFile
  /\ Len(dfIn.rows) = 1
  /\ HasCol(dfIn, "Home") /\ HasCol(dfIn, "Away") /\ HasCol(dfIn, "Time")
  /\ dfIn.rows[1]["Home"] = Str(<<"Man", SP, "Utd">>)
  /\ dfIn.rows[1]["Away"] = Str(<<"Wolves">>)
  /\ Len(dfOut.df.rows) = 1
  /\ dfOut.df.rows[1]["Home"] = Str(<<"Manchester", SP, "United">>)
  /\ dfOut.df.rows[1]["Away"] = Str(<<"Wolverhampton", SP, "Wanderers">>)
  /\ dfOut.df.rows[1]["Time"] = dfIn.rows[1]["Time"]

\* The columns that no step after row removal writes: those of the input that
\* cols_order keeps and that are not dropped, split, consolidated, normalized
\* or converted.
C26_Untouched ==
  {c \in Range(dfIn.cols) \cap Range(ColsOrder) :
     /\ c \notin Range(g["COLUMNS_TO_DROP"].val)
     /\ c \notin Range(g["COLS_TO_CONVERT_INT"].val)
     /\ c \notin Range(g["COLS_TO_CONVERT_FLOAT"].val)
     /\ c \notin {"Home", "Away", "Score", "Score_Home", "Score_Away", "xG", "xG.1",
                  "xG_Home", "xG_Away"}}

C26_StringifiedNull(c) == IsStr(c) /\ c.v \in {<<"nan">>, <<"None">>, <<"NaN">>, <<"<NA>">>}

\* C26: whenever clean_and_transform_data returns, the returned table has one
\* row for each row that survived row removal, in input order: row k holds
\* the untouched columns of the k-th surviving input row and its normalized
\* team names.  So when rows_to_drop lists Date, Home and Away (the default)
\* and the table has them, no returned row has a null or a stringified null
\* in Date, Home or Away.
C26_RowsPreserved ==
  Returned =>
    /\ Len(dfOut.df.rows) = Cardinality(C19_Kept)
    /\ \A k \in 1..Len(dfOut.df.rows) :
         /\ \A c \in C26_Untouched : dfOut.df.rows[k][c] = dfIn.rows[C19_Nth(k)][c]
         /\ \A c \in {"Home", "Away"} \cap Range(dfIn.cols) \cap Range(ColsOrder) :
              dfOut.df.rows[k][c] =
                normalize_team_name(g, configFile, dfIn.rows[C19_Nth(k)][c]).val
    /\ \A c \in {"Date", "Home", "Away"} :
         ({"Date", "Home", "Away"} \subseteq C19_Present /\ c \in Range(ColsOrder)) =>
           \A k \in 1..Len(dfOut.df.rows) :
             ~IsNull(dfOut.df.rows[k][c]) /\ ~C26_StringifiedNull(dfOut.df.rows[k][c])

\* C26 witness: with the default configuration, of two rows with Date, Home
\* and Away the first had a null Home and the second was returned alone, with
\* its date.
C26_Witness ==
  /\ Returned
  /\ configFile = AbsentFile
  /\ {"Date", "Home", "Away"} \subseteq Range(dfIn.cols)
  /\ Len(dfIn.rows) = 2
  /\ IsNull(dfIn.rows[1]["Home"])
  /\ Len(dfOut.df.rows) = 1
  /\ dfOut.df.rows[1]["Date"] = dfIn.rows[2]["Date"]
  /\ ~IsNull(dfOut.df.rows[1]["Home"])

\* Two equal rows were both returned.
C26_WitnessTwice ==
  /\ Returned
  /\ Len(dfIn.rows) = 2
  /\ dfIn.rows[1] = dfIn.rows[2]
  /\ Len(dfOut.df.rows) = 2

(***************************************************************************)
(* Claims about load_config, checked under SpecNormalize                   *)
(***************************************************************************)
\* C13: when the configuration file does not exist, or reading or parsing it
\* raises, load_config returns the built-in defaults and nothing propagates:
\* every initialization, explicit or lazy, then completes with the globals of
\* the default configuration.
C13_DefaultFallback ==
  configFile.kind \in {"absent", "invalid"} =>
    /\ load_config(configFile) = Some(DEFAULT_CONFIG)
    /\ pc # "exit"
    /\ ~nameOut.raised /\ ~nameOut2.raised
    /\ pc # "start" =>
         /\ g["CONFIG"] = Some(DEFAULT_CONFIG)
         /\ g["TEAM_NAME_CORRECTIONS"] = Some(DEFAULT_CORRECTIONS)
         /\ g["COLS_ORDER"] = DEFAULT_COLUMNS.cols_order
         /\ g["RAW_DIR"] = DEFAULT_PATHS.raw_dir

\* An initialization from a file that could not be parsed.
C13_Witness ==
  /\ configFile.kind = "invalid"
  /\ pc = "ready"
  /\ g["CONFIG"] = Some(DEFAULT_CONFIG)

====
